---- MODULE Spec2Model ----
(***************************************************************************)
(* A model of the core primitives of the Plonky3 repository:              *)
(*   - fri/src/verifier.rs     : the FRI verifier (verify, verify_query)  *)
(*   - circle/src/cfft.rs      : the circle FFT (interpolate, evaluate,   *)
(*                               extrapolate, the parallel layers)        *)
(*   - poseidon2/src/lib.rs    : the Poseidon2 permutation                *)
(*   - blake3-air/src/columns.rs : the Blake3Cols view of a flat row      *)
(*   - mersenne-31/src/cfft/backward.rs : the unrolled backward FFT       *)
(*   - monty-31/src/x86_64_avx512/poseidon2.rs : the AVX512 internal      *)
(*                               layer of Poseidon2                       *)
(* Each subsystem has its own variables, initial predicate, next-state    *)
(* relation and specification; the variables of the other subsystems      *)
(* stay at their idle values.                                             *)
(***************************************************************************)
EXTENDS Integers, Sequences, FiniteSets, TLC

(***************************************************************************)
(* Generic helpers.                                                        *)
(***************************************************************************)
Min(a, b) == IF a <= b THEN a ELSE b

Max(a, b) == IF a >= b THEN a ELSE b

Pow2(n) == 2 ^ n

\* usize >> 1, usize & 1, usize ^ 1 on non-negative integers
Shr(i, n) == i \div Pow2(n)

Lsb(i) == i % 2

Xor1(i) == IF i % 2 = 0 THEN i + 1 ELSE i - 1

(***************************************************************************)
(*                               FRI VERIFIER                             *)
(***************************************************************************)

\* ---- bounds of the FRI model ----
MaxCommits == 2

MaxQueries == 2

MaxLogBlowup == 1

MaxExtraBits == 1

MaxPowBits == 1

\* The field of the FRI model: the integers modulo the prime 3.
FriP == 3

FriF == 0 .. (FriP - 1)

FAdd(a, b) == (a + b) % FriP

FSub(a, b) == (a - b + FriP) % FriP

FMul(a, b) == (a * b) % FriP

\* ---- external collaborators (spec section 6) ----

\* A commitment of the model is perfectly binding: it is the committed row
\* pair itself, the same at every row index of the committed matrix.
Comms == { <<0, 0>>, <<0, 1>>, <<1, 0>>, <<1, 2>> }

CommCode(c) == c[1] * FriP + c[2]

\* The challenger is a deterministic transcript: its state is a number and
\* every operation maps the state (and its input) to a new state.
ChMod == 64

ChObserve(ch, c) == (ch * 3 + CommCode(c) + 1) % ChMod

ChSampleValue(ch) == (ch \div 2) % FriP

ChSampleNext(ch) == (ch * 5 + 3) % ChMod

ChCheckWitness(ch, bits, w) == ((ch + w) % Pow2(bits)) = 0

ChCheckWitnessNext(ch, w) == (ch * 7 + w + 1) % ChMod

ChSampleBitsValue(ch, n) == ch % Pow2(n)

ChSampleBitsNext(ch) == (ch * 11 + 5) % ChMod

\* Mmcs::verify_batch for one matrix of width 2: accepted iff the opening
\* proof is the valid one, the row index is inside the declared height and
\* the leaf row is the committed row.
MmcsVerifyBatch(comm, height, idx, leaves, opening_proof) ==
    /\ opening_proof
    /\ idx < height
    /\ leaves = comm

\* FriGenericConfig::fold_row: a linear interpolation of the pair at beta,
\* whose interpolation point depends on the row index and the layer.
FoldRow(idx, log_height, beta, evals) ==
    FAdd(FAdd(evals[1], evals[2]),
         FMul(FMul(beta, (1 + idx + log_height) % FriP), FSub(evals[1], evals[2])))

\* ---- state of one verify call and of the harness that repeats it ----
VARIABLES
    config,          \* FriConfig and FriGenericConfig: num_queries, log_blowup,
                     \* proof_of_work_bits, extra_query_index_bits, and whether
                     \* the build has debug assertions
    proof,           \* FriProof; the query proofs are recorded as they are read
    n_query_proofs,  \* proof.query_proofs.len()
    opened,          \* what open_input returned for each query so far
    challenger,      \* the challenger's state
    pc,              \* position inside verify
    betas,           \* the folding challenges sampled so far
    qi,              \* number of query proofs already handled
    index,           \* verify_query: index
    folded_eval,     \* verify_query: folded_eval
    ro_iter,         \* verify_query: the rest of reduced_openings
    k,               \* verify_query: fold steps done in this query
    log,             \* every call made on the challenger, open_input and the mmcs
    result,          \* what verify returned ("none" while it runs)
    run,             \* 1: first call, 2: the harness' second call
    mutation,        \* what the harness changed before the second call
    prev_result,     \* the first call's result
    prev_log         \* the first call's log

frivars == << config, proof, n_query_proofs, opened, challenger, pc, betas, qi,
              index, folded_eval, ro_iter, k, log, result, run, mutation,
              prev_result, prev_log >>

\* The verifier before any call: the state of the FRI variables while
\* another part of the repository runs.
FriIdle ==
    /\ config = [ num_queries |-> 0, log_blowup |-> 0, proof_of_work_bits |-> 0,
                  extra_query_index_bits |-> 0, debug_assertions |-> FALSE ]
    /\ proof = [ commit_phase_commits |-> << >>, query_proofs |-> << >>,
                 final_poly |-> 0, pow_witness |-> 0 ]
    /\ n_query_proofs = 0
    /\ opened = << >>
    /\ challenger = 0
    /\ pc = "idle"
    /\ betas = << >>
    /\ qi = 0
    /\ index = 0
    /\ folded_eval = 0
    /\ ro_iter = << >>
    /\ k = 0
    /\ log = << >>
    /\ result = "none"
    /\ run = 0
    /\ mutation = [ kind |-> "none", q |-> 0, k |-> 0 ]
    /\ prev_result = "none"
    /\ prev_log = << >>

\* ---- state of the circle FFT (cfft.rs) ----
VARIABLES
    domain,          \* the CircleDomain of the evaluations handed to interpolate
    target,          \* the CircleDomain handed to evaluate / extrapolate
    width,           \* the width of the matrices
    num_threads,     \* current_num_threads()
    trace,           \* the evaluations E, rows in natural order
    phase,           \* 1: interpolate(E), 2: evaluate(target, coeffs),
                     \* 3: interpolate of the evaluations on target
    cpc,             \* position inside the running transform
    values,          \* the matrix being transformed (values / coeffs.values)
    twiddles,        \* the layers of the twiddles iterator not yet consumed
    blk,             \* par_within_blk_layer: the block the for loop is at
    pending,         \* the jobs of the running parallel region not yet run
    written,         \* the elements written by the jobs of the region so far
    overlap,         \* a job touched an element another job of the region wrote
    serial_values,   \* the same layers applied by serial_layer to whole layers
    coeffs,          \* interpolate(E)
    lde,             \* evaluate(target, coeffs), in cfft order
    lde_coeffs       \* interpolate(lde)

cfftvars == << domain, target, width, num_threads, trace, phase, cpc, values,
               twiddles, blk, pending, written, overlap, serial_values, coeffs,
               lde, lde_coeffs >>

\* The circle FFT before any call.
CfftIdle ==
    /\ domain = [ log_n |-> 0, shift |-> << 1, 0 >> ]
    /\ target = [ log_n |-> 0, shift |-> << 1, 0 >> ]
    /\ width = 0
    /\ num_threads = 0
    /\ trace = << >>
    /\ phase = 0
    /\ cpc = "idle"
    /\ values = << >>
    /\ twiddles = << >>
    /\ blk = 0
    /\ pending = << >>
    /\ written = {}
    /\ overlap = FALSE
    /\ serial_values = << >>
    /\ coeffs = << >>
    /\ lde = << >>
    /\ lde_coeffs = << >>

\* ---- state of Poseidon2 (poseidon2/src/lib.rs) ----
VARIABLES
    poseidon,        \* the Poseidon2 value a constructor returned, with its
                     \* WIDTH and D
    state,           \* permute_mut: the state array
    ppc,             \* position inside permute_mut
    round,           \* permute_mut: the loop variable r
    plog             \* the steps permute_mut has applied, in order

p2vars == << poseidon, state, ppc, round, plog >>

\* Poseidon2 before any call.
P2Idle ==
    /\ poseidon = "none"
    /\ state = << >>
    /\ ppc = "idle"
    /\ round = 0
    /\ plog = << >>

\* ---- state of the Blake3 columns view (blake3-air/src/columns.rs) ----
VARIABLES
    build,           \* TRUE iff the build has debug assertions
    row,             \* the flat slice: its length and its cells that are
                     \* not zero, flat index |-> value
    cols,            \* what borrow / borrow_mut returned: the number of
                     \* cells of the Blake3Cols behind the reference
    bpc              \* "slice" | "view" | "panic"

b3vars == << build, row, cols, bpc >>

\* The columns view before any call.
B3Idle ==
    /\ build = FALSE
    /\ row = << >>
    /\ cols = 0
    /\ bpc = "idle"

\* ---- state of the Mersenne-31 backward FFT (mersenne-31/src/cfft/backward.rs) ----
VARIABLES
    a_len,           \* a.len() of the backward_fft call
    twiddle_table,   \* the lengths of the vectors of twiddle_table
    stack,           \* the calls in progress, the innermost last: function,
                     \* slice length, offset into twiddle_table, position
    butterflies,     \* the butterflies applied so far
    bfpc             \* "call" | "running" | "returned" | "panic"

bfvars == << a_len, twiddle_table, stack, butterflies, bfpc >>

\* The backward FFT before any call.
BfIdle ==
    /\ a_len = 0
    /\ twiddle_table = << >>
    /\ stack = << >>
    /\ butterflies = 0
    /\ bfpc = "idle"

\* ---- state of the AVX512 Poseidon2 internal layer
\*      (monty-31/src/x86_64_avx512/poseidon2.rs) ----
VARIABLES
    layer,           \* the Poseidon2InternalLayerMonty31, with WIDTH and D
    avx_state,       \* the state array of permute_state (one lane of it)
    internal_state,  \* InternalLayer16 / InternalLayer24: s0 and s_hi
    rc_i,            \* the position of packed_internal_constants.iter()
    apc              \* "construct" | "built" | "rounds" | "returned"

avxvars == << layer, avx_state, internal_state, rc_i, apc >>

\* The AVX512 internal layer before any call.
AvxIdle ==
    /\ layer = << >>
    /\ avx_state = << >>
    /\ internal_state = << >>
    /\ rc_i = 0
    /\ apc = "idle"

\* What each part of the repository leaves alone.
notfri == << cfftvars, p2vars, b3vars, bfvars, avxvars >>

NotFriIdle == CfftIdle /\ P2Idle /\ B3Idle /\ BfIdle /\ AvxIdle

notcfft == << frivars, p2vars, b3vars, bfvars, avxvars >>

NotCfftIdle == FriIdle /\ P2Idle /\ B3Idle /\ BfIdle /\ AvxIdle

notp2 == << frivars, cfftvars, b3vars, bfvars, avxvars >>

NotP2Idle == FriIdle /\ CfftIdle /\ B3Idle /\ BfIdle /\ AvxIdle

notb3 == << frivars, cfftvars, p2vars, bfvars, avxvars >>

NotB3Idle == FriIdle /\ CfftIdle /\ P2Idle /\ BfIdle /\ AvxIdle

notbf == << frivars, cfftvars, p2vars, b3vars, avxvars >>

NotBfIdle == FriIdle /\ CfftIdle /\ P2Idle /\ B3Idle /\ AvxIdle

notavx == << frivars, cfftvars, p2vars, b3vars, bfvars >>

NotAvxIdle == FriIdle /\ CfftIdle /\ P2Idle /\ B3Idle /\ BfIdle

vars == << frivars, cfftvars, p2vars, b3vars, bfvars, avxvars >>

\* The challenger state every verify call of the harness starts from.
InitialChallenger == 0

FriErrors == { "InvalidProofShape", "CommitPhaseMmcsError", "FinalPolyMismatch",
               "InvalidPowWitness" }

SeqsUpTo(S, n) == UNION { [1 .. m -> S] : m \in 0 .. n }

Configs == [ num_queries : 0 .. MaxQueries,
             log_blowup : 0 .. MaxLogBlowup,
             proof_of_work_bits : 0 .. MaxPowBits,
             extra_query_index_bits : 0 .. MaxExtraBits,
             debug_assertions : BOOLEAN ]

\* FriConfig::blowup
Blowup(cfg) == Pow2(cfg.log_blowup)

\* The reduced openings open_input may return: at most MaxRo entries
\* (log_height, value), in any order.
MaxRo == 2

RoEntries == { <<lh, 1 + (lh % 2)>> : lh \in 1 .. MaxCommits }

RoLists == SeqsUpTo(RoEntries, MaxRo)

Openings == [ sibling_value : FriF, opening_proof : BOOLEAN ]

\* An opening of the proof that verify never reads: any value does.
UnreadOpening == [ sibling_value |-> 0, opening_proof |-> TRUE ]

\* One call: its name, the query it belongs to (0: none), an argument and
\* its result.
LogEntry(op, q, a, v) == [ op |-> op, q |-> q, a |-> a, v |-> v ]

\* A verify_batch call with all its arguments: the commitment, the list of
\* dimensions, the row index, the opened rows and the opening proof.
BatchEntry(q, log_folded_height, ok, comm, dims, idx, rows, opening_proof) ==
    [ op |-> "verify_batch", q |-> q, a |-> log_folded_height,
      v |-> IF ok THEN 1 ELSE 0,
      comm |-> comm, dims |-> dims, index |-> idx, rows |-> rows,
      opening_proof |-> opening_proof ]

FriInit ==
    /\ config \in Configs
    /\ \E commits \in SeqsUpTo(Comms, MaxCommits), fp \in FriF, w \in 0 .. 1 :
          proof = [ commit_phase_commits |-> commits,
                    query_proofs |-> << >>,
                    final_poly |-> fp,
                    pow_witness |-> w ]
    /\ n_query_proofs \in 0 .. MaxQueries
    /\ opened = << >>
    /\ challenger = InitialChallenger
    /\ pc = "commits"
    /\ betas = << >>
    /\ qi = 0
    /\ index = 0
    /\ folded_eval = 0
    /\ ro_iter = << >>
    /\ k = 0
    /\ log = << >>
    /\ result = "none"
    /\ run = 1
    /\ mutation = [ kind |-> "none", q |-> 0, k |-> 0 ]
    /\ prev_result = "none"
    /\ prev_log = << >>
    /\ NotFriIdle

Return(r) ==
    /\ result' = r
    /\ pc' = "done"

\* verify, lines 33-40: one iteration of the map over commit_phase_commits.
ObserveCommit ==
    /\ pc = "commits"
    /\ Len(betas) < Len(proof.commit_phase_commits)
    /\ LET comm == proof.commit_phase_commits[Len(betas) + 1]
           ch1 == ChObserve(challenger, comm)
           beta == ChSampleValue(ch1)
       IN /\ challenger' = ChSampleNext(ch1)
          /\ betas' = Append(betas, beta)
          /\ log' = log \o << LogEntry("observe", 0, Len(betas) + 1, CommCode(comm)),
                              LogEntry("sample", 0, Len(betas) + 1, beta) >>
    /\ UNCHANGED << config, proof, n_query_proofs, opened, pc, qi, index,
                    folded_eval, ro_iter, k, result, run, mutation, prev_result,
                    prev_log >>
    /\ UNCHANGED notfri

\* A variant of the query-count test that rejects only a proof with too many
\* query proofs.
ShapeMismatchTooManyOnly == n_query_proofs > config.num_queries

\* verify, line 42: the test of the query count.
ShapeMismatch == n_query_proofs # config.num_queries

\* verify, lines 42-44.
CheckShape ==
    /\ pc = "commits"
    /\ Len(betas) = Len(proof.commit_phase_commits)
    /\ IF ShapeMismatch
          THEN Return("InvalidProofShape")
          ELSE pc' = "pow" /\ UNCHANGED result
    /\ UNCHANGED << config, proof, n_query_proofs, opened, challenger, betas, qi,
                    index, folded_eval, ro_iter, k, log, run, mutation,
                    prev_result, prev_log >>
    /\ UNCHANGED notfri

\* A variant of the proof-of-work check that asks for no bits.
PowAcceptedNoBits == ChCheckWitness(challenger, 0, proof.pow_witness)

\* verify, line 47: the proof-of-work check on the challenger.
PowAccepted ==
    ChCheckWitness(challenger, config.proof_of_work_bits, proof.pow_witness)

\* verify, lines 46-49.
CheckPow ==
    /\ pc = "pow"
    /\ LET ok == PowAccepted
       IN /\ challenger' = ChCheckWitnessNext(challenger, proof.pow_witness)
          /\ log' = Append(log, LogEntry("check_witness", 0, config.proof_of_work_bits,
                                         IF ok THEN 1 ELSE 0))
          /\ IF ok THEN pc' = "queries" /\ UNCHANGED result
                   ELSE Return("InvalidPowWitness")
    /\ UNCHANGED << config, proof, n_query_proofs, opened, betas, qi, index,
                    folded_eval, ro_iter, k, run, mutation, prev_result, prev_log >>
    /\ UNCHANGED notfri

\* A variant of log_max_height that leaves out the blowup.
LogMaxHeightNoBlowup == Len(proof.commit_phase_commits)

\* verify, line 51.
LogMaxHeight == Len(proof.commit_phase_commits) + config.log_blowup

\* The query proof being verified (1-based).
CurQuery == qi + 1

CurQp == proof.query_proofs[CurQuery]

\* An izip! that stops one commitment early.
IzipStopsEarly ==
    /\ k < LogMaxHeight
    /\ k < Len(betas)
    /\ k + 1 < Len(proof.commit_phase_commits)
    /\ k < CurQp.n_openings

\* verify, lines 61-65, and verify_query, line 100: izip! yields an item while
\* every one of its iterators has one: the range (0..log_max_height).rev(),
\* betas, commit_phase_commits and the query's commit_phase_openings.
IzipHasNext ==
    /\ k < LogMaxHeight
    /\ k < Len(betas)
    /\ k < Len(proof.commit_phase_commits)
    /\ k < CurQp.n_openings

\* verify, lines 53-56: sample the index and call open_input.  A query proof
\* (its number of openings) and the answer of open_input are fixed when they
\* are first read; the second call of the harness reads the same ones.
BeginQuery ==
    /\ pc = "queries"
    /\ qi < n_query_proofs
    /\ LET bits == LogMaxHeight + config.extra_query_index_bits
           sampled == ChSampleBitsValue(challenger, bits)
       IN /\ challenger' = ChSampleBitsNext(challenger)
          /\ IF CurQuery <= Len(proof.query_proofs)
                THEN UNCHANGED << proof, opened >>
                ELSE \E n \in 0 .. (MaxCommits + 1), ro \in RoLists :
                        /\ proof' = [ proof EXCEPT !.query_proofs =
                               Append(@, [ n_openings |-> n,
                                           commit_phase_openings |-> << >> ]) ]
                        /\ opened' = Append(opened, ro)
          /\ log' = log \o << LogEntry("sample_bits", CurQuery, bits, sampled),
                              LogEntry("open_input", CurQuery, sampled, 0) >>
          \* verify, line 60, and verify_query, lines 97-98
          /\ index' = Shr(sampled, config.extra_query_index_bits)
          /\ folded_eval' = 0
          /\ ro_iter' = opened'[CurQuery]
          /\ k' = 0
          /\ pc' = "fold"
    /\ UNCHANGED << config, n_query_proofs, betas, qi, result, run, mutation,
                    prev_result, prev_log >>
    /\ UNCHANGED notfri

\* A next_if that takes the head of the reduced openings at any layer.
TakesRoAtAnyLayer(log_folded_height) == ro_iter # << >>

\* verify_query, line 101: next_if takes the head of the reduced openings
\* when its log_height is log_folded_height + 1.
TakesRo(log_folded_height) ==
    /\ ro_iter # << >>
    /\ Head(ro_iter)[1] = log_folded_height + 1

\* The sibling pair with the two values at each other's position.
EvalsSwapped(fe, idx, sibling) ==
    [ j \in 1 .. 2 |-> IF j = (Xor1(idx) % 2) + 1 THEN fe ELSE sibling ]

\* verify_query, lines 108-109: the sibling pair (1-based).
Evals(fe, idx, sibling) ==
    [ j \in 1 .. 2 |-> IF j = (Xor1(idx) % 2) + 1 THEN sibling ELSE fe ]

\* A variant that moves on to the sibling's row.
IndexPairOfSibling(idx) == Shr(Xor1(idx), 1) + 1

\* A variant that keeps the index of the layer above.
IndexPairNoShift(idx) == idx

\* verify_query, line 106
IndexPair(idx) == Shr(idx, 1)

\* A variant that returns verify_batch's error for the top layer only.
BatchErrorReturnedTopOnly(ok) == ~ ok /\ k = 0

\* verify_query, line 124: the ? on verify_batch's result returns its error.
BatchErrorReturned(ok) == ~ ok

\* verify_query, lines 100-129: one iteration of the fold loop.
FoldStep ==
    /\ pc = "fold"
    /\ IzipHasNext
    /\ LET log_folded_height == LogMaxHeight - 1 - k
           beta == betas[k + 1]
           comm == proof.commit_phase_commits[k + 1]
           known == k + 1 <= Len(CurQp.commit_phase_openings)
       IN \E opening \in IF known THEN { CurQp.commit_phase_openings[k + 1] }
                                  ELSE Openings :
            LET fe == IF TakesRo(log_folded_height)
                         THEN FAdd(folded_eval, Head(ro_iter)[2])
                         ELSE folded_eval
                index_pair == IndexPair(index)
                evals == Evals(fe, index, opening.sibling_value)
                ok == MmcsVerifyBatch(comm, Pow2(log_folded_height), index_pair,
                                      evals, opening.opening_proof)
            IN /\ proof' = IF known THEN proof
                           ELSE [ proof EXCEPT
                                    !.query_proofs[CurQuery].commit_phase_openings =
                                        Append(@, opening) ]
               /\ ro_iter' = IF TakesRo(log_folded_height) THEN Tail(ro_iter)
                                                           ELSE ro_iter
               /\ log' = Append(log, BatchEntry(CurQuery, log_folded_height, ok,
                                                comm,
                                                << [ width |-> 2,
                                                     height |-> Pow2(log_folded_height) ] >>,
                                                index_pair, << evals >>,
                                                opening.opening_proof))
               /\ IF ~ BatchErrorReturned(ok)
                     THEN /\ index' = index_pair
                          /\ folded_eval' = FoldRow(index_pair, log_folded_height,
                                                    beta, evals)
                          /\ k' = k + 1
                          /\ UNCHANGED << pc, result >>
                     ELSE /\ Return("CommitPhaseMmcsError")
                          /\ folded_eval' = fe
                          /\ UNCHANGED << index, k >>
    /\ UNCHANGED << config, n_query_proofs, opened, challenger, betas, qi, run,
                    mutation, prev_result, prev_log >>
    /\ UNCHANGED notfri

\* A variant of the comparison that is skipped for a query without fold step.
FinalPolyDiffersAfterFold == k > 0 /\ folded_eval # proof.final_poly

\* verify, line 70: the comparison of the query's result with final_poly.
FinalPolyDiffers == folded_eval # proof.final_poly

\* verify_query, lines 131-135: the two debug assertions.
DebugAssertsHold ==
    /\ index < Blowup(config)
    /\ ro_iter = << >>

\* The openings of the current query proof, the ones verify did not read
\* filled in.
FilledOpenings ==
    [ j \in 1 .. CurQp.n_openings |->
        IF j <= Len(CurQp.commit_phase_openings)
           THEN CurQp.commit_phase_openings[j]
           ELSE UnreadOpening ]

\* verify_query, lines 131-137, and verify, lines 70-72: the end of the fold
\* loop, the debug assertions and the comparison with final_poly.
EndQuery ==
    /\ pc = "fold"
    /\ ~ IzipHasNext
    /\ proof' = [ proof EXCEPT !.query_proofs[CurQuery].commit_phase_openings =
                                   FilledOpenings ]
    /\ IF config.debug_assertions /\ ~ DebugAssertsHold
          THEN Return("Panic") /\ UNCHANGED << qi, log >>
          ELSE /\ log' = Append(log, LogEntry("compare", CurQuery, 0, folded_eval))
               /\ IF FinalPolyDiffers
                     THEN Return("FinalPolyMismatch") /\ UNCHANGED qi
                     ELSE /\ qi' = qi + 1
                          /\ pc' = "queries"
                          /\ UNCHANGED result
    /\ UNCHANGED << config, n_query_proofs, opened, challenger, betas, index,
                    folded_eval, ro_iter, k, run, mutation, prev_result, prev_log >>
    /\ UNCHANGED notfri

\* verify, line 75.
Finish ==
    /\ pc = "queries"
    /\ qi = n_query_proofs
    /\ Return("Ok")
    /\ UNCHANGED << config, proof, n_query_proofs, opened, challenger, betas, qi,
                    index, folded_eval, ro_iter, k, log, run, mutation,
                    prev_result, prev_log >>
    /\ UNCHANGED notfri

\* ---- the harness: a second verify call from the same challenger state ----

\* What the harness may change in a proof the first call accepted before it
\* calls verify again: nothing, final_poly, or the sibling_value of one
\* opening of one query proof.
Mutations ==
    { [ kind |-> "none", q |-> 0, k |-> 0, v |-> 0 ] }
    \cup { [ kind |-> "final_poly", q |-> 0, k |-> 0, v |-> v ] :
               v \in FriF \ { proof.final_poly } }
    \cup UNION { UNION { { [ kind |-> "sibling", q |-> q, k |-> j, v |-> v ] :
               v \in FriF \ { proof.query_proofs[q].commit_phase_openings[j]
                                  .sibling_value } } :
               j \in 1 .. proof.query_proofs[q].n_openings } :
               q \in 1 .. Len(proof.query_proofs) }

Mutated(m) ==
    CASE m.kind = "none" -> proof
      [] m.kind = "final_poly" -> [ proof EXCEPT !.final_poly = m.v ]
      [] m.kind = "sibling" ->
           [ proof EXCEPT !.query_proofs[m.q].commit_phase_openings[m.k]
                              .sibling_value = m.v ]

Rerun ==
    /\ pc = "done"
    /\ run = 1
    /\ result = "Ok"
    /\ \E m \in Mutations :
          /\ proof' = Mutated(m)
          /\ mutation' = [ kind |-> m.kind, q |-> m.q, k |-> m.k ]
    /\ run' = 2
    /\ prev_result' = result
    /\ prev_log' = log
    /\ challenger' = InitialChallenger
    /\ pc' = "commits"
    /\ betas' = << >>
    /\ qi' = 0
    /\ index' = 0
    /\ folded_eval' = 0
    /\ ro_iter' = << >>
    /\ k' = 0
    /\ log' = << >>
    /\ result' = "none"
    /\ UNCHANGED << config, n_query_proofs, opened >>
    /\ UNCHANGED notfri

FriNext ==
    \/ ObserveCommit
    \/ CheckShape
    \/ CheckPow
    \/ BeginQuery
    \/ FoldStep
    \/ EndQuery
    \/ Finish
    \/ Rerun

SpecFri == FriInit /\ [][FriNext]_vars

(***************************************************************************)
(*                                CIRCLE FFT                               *)
(***************************************************************************)

\* ---- bounds of the circle FFT model ----
MaxLogN == 5

MaxThreads == 2

\* The field of the circle FFT model: the Mersenne prime field of order
\* 2^7 - 1, whose circle group has order 2^7 (Mersenne31 has order 2^31 - 1
\* and a circle group of order 2^31).
P == 127

\* ComplexExtendable::CIRCLE_TWO_ADICITY
CircleTwoAdicity == 7

MAdd(a, b) == (a + b) % P

MSub(a, b) == (a - b + P) % P

MMul(a, b) == (a * b) % P

\* Field::inverse (of a non-zero element)
MInv(a) == CHOOSE b \in 1 .. (P - 1) : (a * b) % P = 1

\* x.square().double() - F::one()
DoubleSquareMinusOne(x) == MSub(MMul(2, MMul(x, x)), 1)

\* ---- points of the circle (point.rs) ----
\* A point is <<x, y>>; the group law is the rotation.
PointZero == << 1, 0 >>

PointAdd(p, q) ==
    << MSub(MMul(p[1], q[1]), MMul(p[2], q[2])),
       MAdd(MMul(p[1], q[2]), MMul(p[2], q[1])) >>

PointNeg(p) == << p[1], MSub(0, p[2]) >>

RECURSIVE PointMul(_, _)
\* Point * usize
PointMul(p, n) ==
    IF n = 0 THEN PointZero
    ELSE IF n % 2 = 1 THEN PointAdd(p, PointMul(PointAdd(p, p), n \div 2))
    ELSE PointMul(PointAdd(p, p), n \div 2)

\* ComplexExtendable::circle_two_adic_generator(CIRCLE_TWO_ADICITY): a point
\* of order 2^CircleTwoAdicity.
CircleGenerator == << 2, 39 >>

\* Point::generator(log_n): a generator of the subgroup of order 2^log_n
PointGenerator(log_n) == PointMul(CircleGenerator, Pow2(CircleTwoAdicity - log_n))

\* ---- bit tricks (p3_util) ----
RECURSIVE ReverseBitsLen(_, _)
ReverseBitsLen(i, bits) ==
    IF bits = 0 THEN 0
    ELSE (i % 2) * Pow2(bits - 1) + ReverseBitsLen(i \div 2, bits - 1)

RECURSIVE Log2Ceil(_)
\* log2_ceil_usize
Log2Ceil(n) == IF n <= 1 THEN 0 ELSE 1 + Log2Ceil((n + 1) \div 2)

RECURSIVE Log2Floor(_)
Log2Floor(n) == IF n <= 1 THEN 0 ELSE 1 + Log2Floor(n \div 2)

IsPowerOfTwo(n) == n >= 1 /\ Pow2(Log2Floor(n)) = n

\* A vector is a function on 0 .. n - 1 (a Rust Vec or slice).
VLen(v) == Cardinality(DOMAIN v)

\* reverse_slice_index_bits
ReverseSliceIndexBits(v) ==
    [ i \in DOMAIN v |-> v[ReverseBitsLen(i, Log2Floor(VLen(v)))] ]

\* cfft_permute_index
CfftPermuteIndex(idx, log_n) ==
    ReverseBitsLen(IF idx % 2 = 0 THEN idx \div 2
                                  ELSE Pow2(log_n) - (idx \div 2) - 1, log_n)

\* ---- circle domains (domain.rs) ----
\* CircleDomain::standard
StandardDomain(log_n) == [ log_n |-> log_n, shift |-> PointGenerator(log_n + 1) ]

\* CircleDomain::gen
DomainGen(d) == PointGenerator(d.log_n - 1)

\* CircleDomain::coset0: shift + i * gen for i < 2^(log_n - 1)
Coset0(d) ==
    [ i \in 0 .. (Pow2(d.log_n - 1) - 1) |->
        PointAdd(d.shift, PointMul(DomainGen(d), i)) ]

\* CircleDomain::coset1: -shift + (i + 1) * gen
Coset1(d) ==
    [ i \in 0 .. (Pow2(d.log_n - 1) - 1) |->
        PointAdd(PointNeg(d.shift), PointMul(DomainGen(d), i + 1)) ]

\* CircleDomain::points: coset0 interleaved with coset1
DomainPoints(d) ==
    [ i \in 0 .. (Pow2(d.log_n) - 1) |->
        IF i % 2 = 0 THEN Coset0(d)[i \div 2] ELSE Coset1(d)[i \div 2] ]

\* ---- twiddles (cfft.rs, compute_twiddles) ----
\* Twiddle tables are sequences (1-based); matrices are row-major vectors
\* (0-based), as RowMajorMatrix::values.
RECURSIVE XTwiddleLayers(_, _)
\* compute_twiddles, lines 239-248: push n more layers, each 2x^2 - 1 of
\* every second entry of the previous one.
XTwiddleLayers(tw, n) ==
    IF n = 0 THEN tw
    ELSE XTwiddleLayers(
            Append(tw, [ j \in 1 .. ((Len(tw[Len(tw)]) + 1) \div 2) |->
                            DoubleSquareMinusOne(tw[Len(tw)][2 * j - 1]) ]),
            n - 1)

\* compute_twiddles without reverse_slice_index_bits.
ComputeTwiddlesNotReversed(d) ==
    XTwiddleLayers(
        << [ j \in 1 .. Pow2(d.log_n - 1) |-> Coset0(d)[j - 1][2] ],
           [ j \in 1 .. ((Pow2(d.log_n - 1) + 1) \div 2) |->
                Coset0(d)[2 * (j - 1)][1] ] >>,
        d.log_n - 2)

\* compute_twiddles
ComputeTwiddles(d) ==
    XTwiddleLayers(
        << [ j \in 1 .. Pow2(d.log_n - 1) |->
                ReverseSliceIndexBits(Coset0(d))[j - 1][2] ],
           [ j \in 1 .. ((Pow2(d.log_n - 1) + 1) \div 2) |->
                ReverseSliceIndexBits(Coset0(d))[2 * (j - 1)][1] ] >>,
        d.log_n - 2)

\* batch_multiplicative_inverse of every layer (interpolate, lines 50-55)
InverseTwiddles(tw) ==
    [ l \in 1 .. Len(tw) |-> [ j \in 1 .. Len(tw[l]) |-> MInv(tw[l][j]) ] ]

\* .rev().skip(n) of the layers (evaluate, lines 150-151)
RevSkip(tw, n) == [ l \in 1 .. (Len(tw) - n) |-> tw[Len(tw) - n - l + 1] ]

\* ---- butterflies (p3_dft) ----
\* Butterfly::apply of DifButterfly(t) and DitButterfly(t) to one pair
\* (x1, x2): the new pair.  Interpolation uses "dif", evaluation "dit".
DifButterfly(t, x1, x2) == << MAdd(x1, x2), MMul(MSub(x1, x2), t) >>

DitButterfly(t, x1, x2) == << MAdd(x1, MMul(x2, t)), MSub(x1, MMul(x2, t)) >>

Butterfly(kind, t, x1, x2) ==
    IF kind = "dif" THEN DifButterfly(t, x1, x2) ELSE DitButterfly(t, x1, x2)

\* ---- layers ----
\* desired_num_jobs
DesiredNumJobs(threads) == 16 * threads

\* serial_layer: every block of values.len() / twiddles.len() elements is
\* split in halves and the block's butterfly is applied to the pairs
\* (lo[j], hi[j]).
SerialLayer(kind, vals, ts) ==
    [ i \in DOMAIN vals |->
        IF i \div (VLen(vals) \div Len(ts)) >= Len(ts) THEN vals[i]
        ELSE IF i % (VLen(vals) \div Len(ts)) < (VLen(vals) \div Len(ts)) \div 2
        THEN Butterfly(kind, ts[i \div (VLen(vals) \div Len(ts)) + 1],
                       vals[i], vals[i + (VLen(vals) \div Len(ts)) \div 2])[1]
        ELSE Butterfly(kind, ts[i \div (VLen(vals) \div Len(ts)) + 1],
                       vals[i - (VLen(vals) \div Len(ts)) \div 2], vals[i])[2] ]

\* par_within_blk_layer, line 195: the size of a job in a half-block of
\* lo_len elements.
JobSz(lo_len, threads) ==
    Max(1, Shr(lo_len, Log2Ceil(DesiredNumJobs(threads))))

\* The elements of a half-block that par_chunks_exact_mut(job_sz) hands out:
\* whole chunks only, the remainder of the slice is in no chunk.
ChunksExactLen(len, chunk_sz) == (len \div chunk_sz) * chunk_sz

\* par_within_blk_layer once every job of every block has run: within a
\* block only the elements inside a job receive the butterfly.
ParWithinBlkLayer(kind, vals, ts, threads) ==
    [ i \in DOMAIN vals |->
        IF i \div (VLen(vals) \div Len(ts)) >= Len(ts) THEN vals[i]
        ELSE IF (i % ((VLen(vals) \div Len(ts)) \div 2))
                >= ChunksExactLen((VLen(vals) \div Len(ts)) \div 2,
                                  JobSz((VLen(vals) \div Len(ts)) \div 2, threads))
        THEN vals[i]
        ELSE SerialLayer(kind, vals, ts)[i] ]

\* &ts[(tchunk_sz * chunk_i)..(tchunk_sz * (chunk_i + 1))]
TwiddleChunk(ts, min_blks, chunk_i) ==
    SubSeq(ts, (Len(ts) \div min_blks) * chunk_i + 1,
               (Len(ts) \div min_blks) * (chunk_i + 1))

\* The chunk's twiddles of every layer of par_twiddles.
TwiddleChunks(par_tw, min_blks, chunk_i) ==
    [ l \in 1 .. Len(par_tw) |-> TwiddleChunk(par_tw[l], min_blks, chunk_i) ]

RECURSIVE SerialLayers(_, _, _)
\* for ts in ... { serial_layer(values, ts) } (lines 71-76, 166-171)
SerialLayers(kind, vals, tws) ==
    IF tws = << >> THEN vals
    ELSE SerialLayers(kind, SerialLayer(kind, vals, Head(tws)), Tail(tws))

\* A slice vals[start .. start + len - 1] as a vector.
Slice(vals, start, len) == [ j \in 0 .. (len - 1) |-> vals[start + j] ]

\* par_row_chunks_exact_mut(max_blk_sz) once every chunk has run; chunk_len
\* is max_blk_sz * width.
ParLayers(kind, vals, par_tw, min_blks, chunk_len) ==
    [ i \in DOMAIN vals |->
        IF i \div chunk_len >= VLen(vals) \div chunk_len THEN vals[i]
        ELSE SerialLayers(kind,
                          Slice(vals, (i \div chunk_len) * chunk_len, chunk_len),
                          TwiddleChunks(par_tw, min_blks, i \div chunk_len))
                [i % chunk_len] ]

\* ---- matrices ----
\* CfftPerm::view(m).to_row_major_matrix(): row r of the view is row
\* cfft_permute_index(r) of m.
CfftView(vals, log_n, w) ==
    [ i \in DOMAIN vals |-> vals[CfftPermuteIndex(i \div w, log_n) * w + (i % w)] ]

ScaleBy(vals, c) == [ i \in DOMAIN vals |-> MMul(vals[i], c) ]

\* divide_by_height (p3_dft)
DivideByHeight(vals, height) == ScaleBy(vals, MInv(height % P))

\* coeffs.values.extend_from_within(..), repeated until the vector has
\* total elements (evaluate, lines 138-141)
ExtendFromWithin(vals, total) ==
    [ i \in 0 .. (total - 1) |-> vals[i % VLen(vals)] ]

RECURSIVE CircleBasisFrom(_, _, _)
\* circle_basis, lines 255-260: n more rounds
CircleBasisFrom(b, x, n) ==
    IF n = 0 THEN b
    ELSE CircleBasisFrom(b \o [ i \in 1 .. Len(b) |-> MMul(b[i], x) ],
                         DoubleSquareMinusOne(x), n - 1)

\* circle_basis
CircleBasis(p, log_n) == CircleBasisFrom(<< 1, p[2] >>, p[1], log_n - 1)

RECURSIVE DotColumn(_, _, _, _, _)
\* The dot product of column c of a matrix of width w with v, over the
\* first r rows.
DotColumn(mat, w, c, v, r) ==
    IF r = 0 THEN 0
    ELSE MAdd(DotColumn(mat, w, c, v, r - 1), MMul(mat[(r - 1) * w + c], v[r]))

\* Matrix::columnwise_dot_product
ColumnwiseDotProduct(mat, w, v) ==
    [ c \in 0 .. (w - 1) |-> DotColumn(mat, w, c, v, VLen(mat) \div w) ]

\* Matrix::row_slice
RowSlice(mat, w, r) == [ c \in 0 .. (w - 1) |-> mat[r * w + c] ]

\* ---- the calls made on the circle FFT ----
MaxWidth == 13

\* Jobs of a parallel region that may be running at the same time.
ParWindow == 2

Widths == { 1, 2, MaxWidth }

\* Shifts of the domains: the standard one and two points of full order
\* (CircleDomain::new(log_n, shift); every one gives 2^log_n distinct points).
Shifts(log_n) ==
    { PointGenerator(log_n + 1), CircleGenerator, PointMul(CircleGenerator, 3) }

DomainsOf(log_ns) ==
    UNION { { [ log_n |-> l, shift |-> s ] : s \in Shifts(l) } : l \in log_ns }

\* The target domains of extrapolate: the domain itself and the standard
\* domains that are at least as large.
Targets(d) == { d } \cup { StandardDomain(l) : l \in d.log_n .. MaxLogN }

Dense(n) == [ i \in 0 .. (n - 1) |-> (i * i + 3 * i + 1) % P ]

Impulse(n, at) == [ i \in 0 .. (n - 1) |-> IF i = at THEN 1 ELSE 0 ]

\* The evaluation matrices of height h and width w of the model.
Traces(h, w) ==
    { Dense(h * w) }
        \cup { Impulse(h * w, r * w + c) : r \in { 0, h - 1 }, c \in { 0, w - 1 } }

\* The calls of the scheduling model: standard domains, the dense matrix,
\* the round trip and a blow-up by one bit.
ParTargets(d) == { d, StandardDomain(Min(MaxLogN, d.log_n + 1)) }

ParTraces(h, w) == { Dense(h * w) }

cfftin == << domain, target, width, num_threads, trace >>

cfftpar == << blk, pending, written, overlap >>

cfftout == << coeffs, lde, lde_coeffs >>

\* The state before CircleEvaluations::from_natural_order(domain, trace)
\* .interpolate() is called; par: the calls of the scheduling model.
CfftStart(doms, par) ==
    /\ domain \in doms
    /\ target \in IF par THEN ParTargets(domain) ELSE Targets(domain)
    /\ width \in Widths
    /\ num_threads \in 1 .. MaxThreads
    /\ trace \in IF par THEN ParTraces(Pow2(domain.log_n), width)
                       ELSE Traces(Pow2(domain.log_n), width)
    /\ phase = 0
    /\ cpc = "start"
    /\ values = << >>
    /\ twiddles = << >>
    /\ blk = 0
    /\ pending = << >>
    /\ written = {}
    /\ overlap = FALSE
    /\ serial_values = << >>
    /\ coeffs = << >>
    /\ lde = << >>
    /\ lde_coeffs = << >>

\* The butterfly of the running transform.
Kind == IF phase = 2 THEN "dit" ELSE "dif"

RECURSIVE PeekingTakeWhile(_, _, _)
\* twiddles.peeking_take_while(..): how many leading layers have
\* (len >= dnj) = ge.
PeekingTakeWhile(tw, ge, dnj) ==
    IF tw = << >> THEN 0
    ELSE IF (Len(Head(tw)) >= dnj) = ge
    THEN 1 + PeekingTakeWhile(Tail(tw), ge, dnj)
    ELSE 0

\* The assertions of compute_twiddles hold on domain d: line 232, and line
\* 241 in every round of the loop.
ComputeTwiddlesOk(d) ==
    /\ d.log_n >= 2
    /\ \A i \in 0 .. (d.log_n - 3) :
          Len(ComputeTwiddles(d)[i + 2]) = Pow2(d.log_n - 2 - i)

\* The assertions on the way into the layers of interpolate hold, for
\* evaluations of height h on domain d: from_cfft_order (line 24),
\* compute_twiddles, and twiddles.len() == domain.log_n (line 59).
InterpolateOk(d, h) ==
    /\ Pow2(d.log_n) = h
    /\ ComputeTwiddlesOk(d)
    /\ Len(ComputeTwiddles(d)) = d.log_n

\* evaluate refusing coefficients as high as the domain.
EvaluateOkStrict(d, h) ==
    /\ IsPowerOfTwo(h)
    /\ Log2Floor(h) < d.log_n
    /\ h * Pow2(d.log_n - Log2Floor(h)) = Pow2(d.log_n)
    /\ ComputeTwiddlesOk(d)

\* The assertions on the way into the layers of evaluate hold, for
\* coefficients of height h and domain d: log2_strict_usize (line 127), lines
\* 128 and 144 (the height after the doublings), and compute_twiddles.
EvaluateOk(d, h) ==
    /\ IsPowerOfTwo(h)
    /\ Log2Floor(h) <= d.log_n
    /\ h * Pow2(d.log_n - Log2Floor(h)) = Pow2(d.log_n)
    /\ ComputeTwiddlesOk(d)

\* from_natural_order(domain, trace).interpolate(), lines 23-59 (on E, or
\* interpolate on the evaluations evaluate returned)
InterpolateBegin ==
    /\ cpc \in { "start", "lde" }
    /\ phase' = IF cpc = "start" THEN 1 ELSE 3
    /\ IF InterpolateOk(IF cpc = "start" THEN domain ELSE target,
                        VLen(IF cpc = "start" THEN trace ELSE lde) \div width)
          THEN /\ values' = IF cpc = "start"
                               THEN CfftView(trace, domain.log_n, width) ELSE lde
               /\ twiddles' = InverseTwiddles(
                      ComputeTwiddles(IF cpc = "start" THEN domain ELSE target))
               /\ serial_values' = values'
               /\ cpc' = "par_layers"
          ELSE /\ cpc' = "panic"
               /\ UNCHANGED << values, twiddles, serial_values >>
    /\ UNCHANGED << cfftin, cfftpar, cfftout, notcfft >>

\* extrapolate, lines 91-96: the assertion, then self.interpolate()
ExtrapolateBegin ==
    /\ cpc = "extrapolate"
    /\ cpc' = IF target.log_n >= domain.log_n THEN "start" ELSE "panic"
    /\ UNCHANGED << cfftin, cfftpar, cfftout, phase, values, twiddles,
                    serial_values, notcfft >>

\* evaluate, lines 126-153, called on (target, coeffs); with target = domain
\* this is the second half of the round trip, otherwise of extrapolate.
EvaluateBegin ==
    /\ cpc = "coeffs"
    /\ phase' = 2
    /\ IF EvaluateOk(target, VLen(coeffs) \div width)
          THEN /\ values' = ExtendFromWithin(coeffs, Pow2(target.log_n) * width)
               /\ twiddles' = RevSkip(ComputeTwiddles(target),
                                      target.log_n
                                        - Log2Floor(VLen(coeffs) \div width))
               /\ serial_values' = values'
               /\ cpc' = "within"
          ELSE /\ cpc' = "panic"
               /\ UNCHANGED << values, twiddles, serial_values >>
    /\ UNCHANGED << cfftin, cfftpar, cfftout, notcfft >>

\* The layers handed to par_row_chunks_exact_mut: interpolate, lines 61-63;
\* evaluate, line 158.
ParTwiddles ==
    IF phase = 2 THEN twiddles
    ELSE SubSeq(twiddles, 1,
                PeekingTakeWhile(twiddles, TRUE, DesiredNumJobs(num_threads)))

\* The layers left for par_within_blk_layer after the parallel layers.
RestTwiddles ==
    IF phase = 2 THEN << >>
    ELSE SubSeq(twiddles, Len(ParTwiddles) + 1, Len(twiddles))

\* min_blks: lines 64 and 159
MinBlks ==
    IF phase = 2 THEN Len(ParTwiddles[1]) ELSE Len(ParTwiddles[Len(ParTwiddles)])

\* max_blk_sz rows, in elements: lines 65 and 160
ChunkLen == ((VLen(values) \div width) \div MinBlks) * width

\* The transform is at its par_row_chunks_exact_mut region.
AtParLayers ==
    \/ phase \in { 1, 3 } /\ cpc = "par_layers"
    \/ /\ phase = 2
       /\ cpc = "within"
       /\ IF twiddles = << >> THEN TRUE
          ELSE Len(Head(twiddles)) >= DesiredNumJobs(num_threads)

\* The transform is at a call of par_within_blk_layer (lines 81-83, 154-156).
AtWithinLayer ==
    /\ cpc = "within"
    /\ twiddles # << >>
    /\ phase = 2 => Len(Head(twiddles)) < DesiredNumJobs(num_threads)

\* What follows the parallel layers: interpolate goes on with the remaining
\* layers, evaluate returns (line 176).
AfterParLayers ==
    IF phase = 2 THEN lde' = values' /\ cpc' = "lde" /\ UNCHANGED << coeffs, lde_coeffs >>
                 ELSE cpc' = "within" /\ UNCHANGED cfftout

\* interpolate, lines 64-79, and evaluate, lines 159-174: the whole region.
RunParLayers ==
    /\ AtParLayers
    /\ values' = IF ParTwiddles = << >> THEN values
                 ELSE ParLayers(Kind, values, ParTwiddles, MinBlks, ChunkLen)
    /\ serial_values' = SerialLayers(Kind, serial_values, ParTwiddles)
    /\ twiddles' = RestTwiddles
    /\ AfterParLayers
    /\ UNCHANGED << cfftin, cfftpar, phase, notcfft >>

\* interpolate, lines 81-83, and evaluate, lines 154-156: one call of
\* par_within_blk_layer.
RunWithinBlkLayer ==
    /\ AtWithinLayer
    /\ values' = ParWithinBlkLayer(Kind, values, Head(twiddles), num_threads)
    /\ serial_values' = SerialLayer(Kind, serial_values, Head(twiddles))
    /\ twiddles' = Tail(twiddles)
    /\ UNCHANGED << cfftin, cfftpar, cfftout, phase, cpc, notcfft >>

\* interpolate, lines 85-87
InterpolateDivide ==
    /\ phase \in { 1, 3 }
    /\ cpc = "within"
    /\ twiddles = << >>
    /\ values' = DivideByHeight(values, VLen(values) \div width)
    /\ serial_values' = DivideByHeight(serial_values, VLen(values) \div width)
    /\ IF phase = 1
          THEN coeffs' = values' /\ cpc' = "coeffs" /\ UNCHANGED << lde, lde_coeffs >>
          ELSE lde_coeffs' = values' /\ cpc' = "done" /\ UNCHANGED << coeffs, lde >>
    /\ UNCHANGED << cfftin, cfftpar, phase, twiddles, notcfft >>

InitCfft ==
    /\ CfftStart(DomainsOf(2 .. MaxLogN), FALSE)
    /\ NotCfftIdle

CfftNext ==
    \/ InterpolateBegin
    \/ RunParLayers
    \/ RunWithinBlkLayer
    \/ InterpolateDivide
    \/ EvaluateBegin

SpecCfft == InitCfft /\ [][CfftNext]_vars

\* ---- calls with arbitrary dimensions ----
MaxPreLogN == 3

\* extrapolate called on evaluations of any height on a domain of any log_n
\* with any target, or evaluate called on coefficients of any height.
InitPre ==
    /\ width \in { 1, 2 }
    /\ num_threads \in 1 .. MaxThreads
    /\ \E l \in 0 .. MaxPreLogN, t \in 0 .. MaxPreLogN,
          h \in 1 .. Pow2(MaxPreLogN) :
          \/ /\ cpc = "extrapolate"
             /\ domain = StandardDomain(l)
             /\ target = StandardDomain(t)
             /\ trace = Dense(h * width)
             /\ coeffs = << >>
          \/ /\ cpc = "coeffs"
             /\ domain = StandardDomain(t)
             /\ target = StandardDomain(t)
             /\ trace = << >>
             /\ coeffs = Dense(h * width)
    /\ phase = 0
    /\ values = << >>
    /\ twiddles = << >>
    /\ blk = 0
    /\ pending = << >>
    /\ written = {}
    /\ overlap = FALSE
    /\ serial_values = << >>
    /\ lde = << >>
    /\ lde_coeffs = << >>
    /\ NotCfftIdle

PreNext ==
    \/ ExtrapolateBegin
    \/ InterpolateBegin
    \/ RunParLayers
    \/ RunWithinBlkLayer
    \/ InterpolateDivide
    \/ EvaluateBegin

SpecPre == InitPre /\ [][PreNext]_vars

\* ---- the parallel regions, job by job ----
\* A job is the closure rayon runs on one item of a parallel iterator: it
\* owns the slices values[lo .. lo + len - 1] and values[hi .. hi + len - 1]
\* and applies the layers tws to them (one twiddle per block).

\* The items of par_row_chunks_exact_mut(max_blk_sz).enumerate(), lines 67-77
\* and 162-172: chunk chunk_i with its serial_layer calls.
ChunkJobs(n, par_tw, min_blks, chunk_len) ==
    [ c \in 1 .. (n \div chunk_len) |->
        [ lo  |-> (c - 1) * chunk_len,
          hi  |-> (c - 1) * chunk_len + chunk_len \div 2,
          len |-> chunk_len \div 2,
          tws |-> TwiddleChunks(par_tw, min_blks, c - 1) ] ]

\* The items of lo.par_chunks_exact_mut(job_sz).zip(hi.par_chunks_exact_mut(
\* job_sz)) for block b of a layer, lines 192-198.
WithinJobs(n, ts, b, threads) ==
    [ j \in 1 .. (((n \div Len(ts)) \div 2) \div JobSz((n \div Len(ts)) \div 2, threads)) |->
        [ lo  |-> b * (n \div Len(ts))
                    + (j - 1) * JobSz((n \div Len(ts)) \div 2, threads),
          hi  |-> b * (n \div Len(ts)) + (n \div Len(ts)) \div 2
                    + (j - 1) * JobSz((n \div Len(ts)) \div 2, threads),
          len |-> JobSz((n \div Len(ts)) \div 2, threads),
          tws |-> << << ts[b + 1] >> >> ] ]

\* The elements a job reads and writes.
Footprint(job) ==
    (job.lo .. (job.lo + job.len - 1)) \cup (job.hi .. (job.hi + job.len - 1))

\* The job's two slices, lo then hi, after its layers.
JobOutput(kind, vals, job) ==
    SerialLayers(kind,
                 [ j \in 0 .. (2 * job.len - 1) |->
                     IF j < job.len THEN vals[job.lo + j]
                                    ELSE vals[job.hi + j - job.len] ],
                 job.tws)

\* t.apply_to_rows(lo_job, hi_job) / the chunk's serial_layer calls
ApplyJob(kind, vals, job) ==
    [ i \in DOMAIN vals |->
        IF i >= job.lo /\ i < job.lo + job.len
        THEN JobOutput(kind, vals, job)[i - job.lo]
        ELSE IF i >= job.hi /\ i < job.hi + job.len
        THEN JobOutput(kind, vals, job)[i - job.hi + job.len]
        ELSE vals[i] ]

\* Entering par_row_chunks_exact_mut(..).for_each (lines 64-70, 159-165)
ForkParLayers ==
    /\ AtParLayers
    /\ pending' = IF ParTwiddles = << >> THEN << >>
                  ELSE ChunkJobs(VLen(values), ParTwiddles, MinBlks, ChunkLen)
    /\ serial_values' = SerialLayers(Kind, serial_values, ParTwiddles)
    /\ twiddles' = RestTwiddles
    /\ written' = {}
    /\ cpc' = "join_par"
    /\ UNCHANGED << cfftin, cfftout, phase, values, blk, overlap, notcfft >>

\* Entering the parallel iterator of one block (lines 193-198)
ForkWithinBlk ==
    /\ AtWithinLayer
    /\ pending' = WithinJobs(VLen(values), Head(twiddles), blk, num_threads)
    /\ serial_values' = IF blk = 0
                        THEN SerialLayer(Kind, serial_values, Head(twiddles))
                        ELSE serial_values
    /\ written' = {}
    /\ cpc' = "join_blk"
    /\ UNCHANGED << cfftin, cfftout, phase, values, twiddles, blk, overlap, notcfft >>

\* One job of the region runs to completion; any of the jobs the pool has
\* picked up may be the next to do so.
RunJob ==
    /\ pending # << >>
    /\ \E j \in 1 .. Min(ParWindow, Len(pending)) :
          /\ values' = ApplyJob(Kind, values, pending[j])
          /\ overlap' = (overlap \/ Footprint(pending[j]) \cap written # {})
          /\ written' = written \cup Footprint(pending[j])
          /\ pending' = SubSeq(pending, 1, j - 1) \o SubSeq(pending, j + 1, Len(pending))
    /\ UNCHANGED << cfftin, cfftout, phase, cpc, twiddles, blk, serial_values, notcfft >>

\* for_each returns once every chunk has run (lines 78, 173)
JoinParLayers ==
    /\ cpc = "join_par"
    /\ pending = << >>
    /\ written' = {}
    /\ UNCHANGED << cfftin, phase, values, twiddles, blk, pending, overlap,
                    serial_values, notcfft >>
    /\ AfterParLayers

\* for_each returns and the for loop takes the next block, or the layer ends
\* (lines 193, 199)
JoinWithinBlk ==
    /\ cpc = "join_blk"
    /\ pending = << >>
    /\ written' = {}
    /\ IF blk + 1 < Len(Head(twiddles))
          THEN blk' = blk + 1 /\ UNCHANGED twiddles
          ELSE blk' = 0 /\ twiddles' = Tail(twiddles)
    /\ cpc' = "within"
    /\ UNCHANGED << cfftin, cfftout, phase, values, pending, overlap,
                    serial_values, notcfft >>

InitPar ==
    /\ CfftStart({ StandardDomain(l) : l \in 2 .. MaxLogN }, TRUE)
    /\ NotCfftIdle

ParNext ==
    \/ InterpolateBegin
    \/ ForkParLayers
    \/ ForkWithinBlk
    \/ RunJob
    \/ JoinParLayers
    \/ JoinWithinBlk
    \/ InterpolateDivide
    \/ EvaluateBegin

SpecPar == InitPar /\ [][ParNext]_vars

(***************************************************************************)
(*                                POSEIDON2                                *)
(***************************************************************************)

\* ---- bounds of the Poseidon2 model ----
MaxP2Width == 5

MaxRoundsF == 3

MaxRoundsP == 2

\* SUPPORTED_WIDTHS
SupportedWidths == { 2, 3, 4, 8, 12, 16, 20, 24 }

\* The S-box exponents D of the model.
SboxDegrees == { 3, 5 }

RECURSIVE MExp(_, _)
\* AbstractField::exp_const_u64
MExp(x, n) == IF n = 0 THEN 1 ELSE MMul(x, MExp(x, n - 1))

RECURSIVE VSum(_, _)
\* The sum of the first n elements of a state array.
VSum(st, n) == IF n = 0 THEN 0 ELSE MAdd(VSum(st, n - 1), st[n])

\* The external linear layer the caller supplies; the model's is the
\* circulant circ(2, 1, .., 1), the MDS-light matrix of the widths 2 and 3.
\* State arrays are sequences: state[0] of the code is st[1].
ExternalLinearLayer(st) ==
    [ i \in 1 .. Len(st) |-> MAdd(VSum(st, Len(st)), st[i]) ]

\* The diagonal v of the internal layer 1 + diag(v): -2, 1, 2, 1/2, 3, ..
DiagV == << P - 2, 1, 2, MInv(2), 3 >>

\* The internal linear layer: sum = sum of the s_i, then s_i <- sum + v_i s_i.
InternalLinearLayer(st) ==
    [ i \in 1 .. Len(st) |->
        MAdd(VSum(st, Len(st)), MMul(DiagV[((i - 1) % Len(DiagV)) + 1], st[i])) ]

\* add_rc
AddRc(st, rc) == [ i \in 1 .. Len(st) |-> MAdd(st[i], rc[i]) ]

\* sbox_p
SboxP(x, d) == MExp(x, d)

\* sbox
Sbox(st, d) == [ i \in 1 .. Len(st) |-> SboxP(st[i], d) ]

\* Round constants: n arrays of width w / n field elements, drawn by seed.
ExternalConstants(n, w, seed) ==
    [ j \in 1 .. n |-> [ i \in 1 .. w |-> (seed + j * w + i) % P ] ]

InternalConstants(n, seed) == [ j \in 1 .. n |-> (seed + 3 * j) % P ]

\* The struct a constructor returns (with its const parameters WIDTH and D,
\* and which constructor made it).
Poseidon2(ctor, w, d, rf, ec, rp, ic) ==
    [ ctor |-> ctor, width |-> w, d |-> d, rounds_f |-> rf,
      external_constants |-> ec, rounds_p |-> rp, internal_constants |-> ic ]

P2Init ==
    /\ poseidon = Poseidon2("none", 0, 0, 0, << >>, 0, << >>)
    /\ state = << >>
    /\ ppc = "construct"
    /\ round = 0
    /\ plog = << >>
    /\ NotP2Idle

\* Poseidon2::new, lines 57-74: the caller passes constant vectors of any
\* length.
New ==
    /\ ppc = "construct"
    /\ \E w \in 1 .. MaxP2Width, d \in SboxDegrees, rf \in 0 .. MaxRoundsF,
          rp \in 0 .. MaxRoundsP, ne \in 0 .. MaxRoundsF, ni \in 0 .. MaxRoundsP :
          IF w \in SupportedWidths
          THEN /\ poseidon' = Poseidon2("new", w, d, rf, ExternalConstants(ne, w, 0),
                                        rp, InternalConstants(ni, 0))
               /\ ppc' = "built"
          ELSE /\ ppc' = "panic_new"
               /\ UNCHANGED poseidon
    /\ UNCHANGED << state, round, plog, notp2 >>

\* Poseidon2::new_from_rng, lines 77-105
NewFromRng ==
    /\ ppc = "construct"
    /\ \E w \in 1 .. MaxP2Width, d \in SboxDegrees, rf \in 0 .. MaxRoundsF,
          rp \in 0 .. MaxRoundsP, seed \in { 1, 2 } :
          poseidon' = Poseidon2("new_from_rng", w, d, rf,
                                ExternalConstants(rf, w, seed),
                                rp, InternalConstants(rp, seed))
    /\ ppc' = "built"
    /\ UNCHANGED << state, round, plog, notp2 >>

\* permute_mut, lines 143-148: the initial linear layer
PermuteBegin ==
    /\ ppc = "built"
    /\ \E st \in { [ i \in 1 .. poseidon.width |-> 0 ],
                   [ i \in 1 .. poseidon.width |-> i ] } :
          state' = ExternalLinearLayer(st)
    /\ plog' = << "L" >>
    /\ round' = 0
    /\ ppc' = "first_half"
    /\ UNCHANGED << poseidon, notp2 >>

\* The end of the range of the running loop: lines 149, 156, 163.
LoopEnd ==
    IF ppc = "first_half" THEN poseidon.rounds_f \div 2
    ELSE IF ppc = "internal" THEN poseidon.rounds_p
    ELSE poseidon.rounds_f

\* One external round, lines 150-152 and 164-166; indexing
\* external_constants out of bounds panics.
ExternalRound ==
    /\ ppc \in { "first_half", "second_half" }
    /\ round < LoopEnd
    /\ IF round >= Len(poseidon.external_constants)
          THEN ppc' = "panic" /\ UNCHANGED << state, round, plog >>
          ELSE /\ state' = ExternalLinearLayer(
                              Sbox(AddRc(state, poseidon.external_constants[round + 1]),
                                   poseidon.d))
               /\ round' = round + 1
               /\ plog' = Append(plog, "E")
               /\ UNCHANGED ppc
    /\ UNCHANGED << poseidon, notp2 >>

\* One internal round, lines 157-159
InternalRound ==
    /\ ppc = "internal"
    /\ round < LoopEnd
    /\ IF round >= Len(poseidon.internal_constants)
          THEN ppc' = "panic" /\ UNCHANGED << state, round, plog >>
          ELSE /\ state' = InternalLinearLayer(
                              [ state EXCEPT ![1] =
                                  SboxP(MAdd(state[1],
                                             poseidon.internal_constants[round + 1]),
                                        poseidon.d) ])
               /\ round' = round + 1
               /\ plog' = Append(plog, "I")
               /\ UNCHANGED ppc
    /\ UNCHANGED << poseidon, notp2 >>

\* A for loop ends and the next one starts (lines 156, 163), or permute_mut
\* returns (line 168).
LoopExit ==
    /\ ppc \in { "first_half", "internal", "second_half" }
    /\ round >= LoopEnd
    /\ ppc' = IF ppc = "first_half" THEN "internal"
              ELSE IF ppc = "internal" THEN "second_half" ELSE "returned"
    /\ round' = IF ppc = "first_half" THEN 0
                ELSE IF ppc = "internal" THEN poseidon.rounds_f \div 2 ELSE round
    /\ UNCHANGED << poseidon, state, plog, notp2 >>

P2Next ==
    \/ New
    \/ NewFromRng
    \/ PermuteBegin
    \/ ExternalRound
    \/ InternalRound
    \/ LoopExit

SpecP2 == P2Init /\ [][P2Next]_vars

(***************************************************************************)
(*                          BLAKE3 COLUMNS VIEW                            *)
(***************************************************************************)

\* ---- bound of the columns model: the cells a run writes ----
MaxWrites == 2

\* constants::U32_LIMBS
U32Limbs == 2

\* size_of::<Blake3State<u8>>(): row0, row1, row2, row3
Blake3StateSize == 4 * U32Limbs + 4 * 32 + 4 * U32Limbs + 4 * 32

\* size_of::<FullRound<u8>>(): state_prime, aux_columns, state_middle,
\* state_middle_prime, aux_diagonals, state_output
FullRoundSize ==
    Blake3StateSize + 4 * 4 * 2 + Blake3StateSize + Blake3StateSize
        + 4 * 4 * 2 + Blake3StateSize

\* struct Blake3Cols<T>: its fields in declaration order, each with its
\* number of cells.
Blake3Cols ==
    << [ name |-> "inputs", size |-> 16 * 32 ],
       [ name |-> "chaining_values", size |-> 2 * 4 * 32 ],
       [ name |-> "counter_low", size |-> 32 ],
       [ name |-> "counter_hi", size |-> 32 ],
       [ name |-> "block_len", size |-> 32 ],
       [ name |-> "flags", size |-> 32 ],
       [ name |-> "initial_row0", size |-> 4 * U32Limbs ],
       [ name |-> "initial_row2", size |-> 4 * U32Limbs ],
       [ name |-> "full_rounds", size |-> 7 * FullRoundSize ],
       [ name |-> "final_round_helpers", size |-> 4 * 32 ],
       [ name |-> "outputs", size |-> 4 * 4 * 32 ] >>

RECURSIVE OffsetOf(_)
\* The offset of field number f of a #[repr(C)] struct whose cells all have
\* the type T: the fields before it, without padding.
OffsetOf(f) == IF f = 1 THEN 0 ELSE OffsetOf(f - 1) + Blake3Cols[f - 1].size

\* size_of::<Blake3Cols<u8>>()
NUM_BLAKE3_COLS == OffsetOf(Len(Blake3Cols)) + Blake3Cols[Len(Blake3Cols)].size

\* slice::align_to::<Blake3Cols<T>>() on a [T] of len cells: Blake3Cols<T>
\* has the alignment of T, so the prefix is empty.
AlignTo(len) ==
    [ prefix |-> 0, shorts |-> len \div NUM_BLAKE3_COLS,
      suffix |-> len % NUM_BLAKE3_COLS ]

\* borrow / borrow_mut return: the debug assertions hold, if the build has
\* them, and shorts[0] exists.
BorrowOk(len, debug) ==
    /\ debug => /\ len = NUM_BLAKE3_COLS
                /\ AlignTo(len).prefix = 0
                /\ AlignTo(len).suffix = 0
                /\ AlignTo(len).shorts = 1
    /\ AlignTo(len).shorts >= 1

\* Cell i of the slice.
Cell(r, i) == IF i \in DOMAIN r.cells THEN r.cells[i] ELSE 0

\* The slice after the write of v to cell i.
WriteCell(r, i, v) ==
    [ r EXCEPT !.cells = [ j \in DOMAIN r.cells \cup { i } |->
                             IF j = i THEN v ELSE r.cells[j] ] ]

\* The lengths of the slices of the model.
SliceLens ==
    { 0, NUM_BLAKE3_COLS - 1, NUM_BLAKE3_COLS, NUM_BLAKE3_COLS + 1,
      2 * NUM_BLAKE3_COLS }

B3Init ==
    /\ build \in BOOLEAN
    /\ \E len \in SliceLens : row = [ len |-> len, cells |-> << >> ]
    /\ cols = 0
    /\ bpc = "slice"
    /\ NotB3Idle

\* A write to the flat slice.
WriteFlat ==
    /\ bpc = "slice"
    /\ Cardinality(DOMAIN row.cells) < MaxWrites
    /\ \E f \in 1 .. Len(Blake3Cols), v \in 1 .. 2 :
          \E i \in { OffsetOf(f), OffsetOf(f) + Blake3Cols[f].size - 1,
                     row.len - 1 } :
             /\ i >= 0
             /\ i < row.len
             /\ row' = WriteCell(row, i, v)
    /\ UNCHANGED << build, cols, bpc, notb3 >>

\* <[T] as Borrow<Blake3Cols<T>>>::borrow, lines 105-112
Borrow ==
    /\ bpc = "slice"
    /\ IF BorrowOk(row.len, build)
          THEN bpc' = "view" /\ cols' = NUM_BLAKE3_COLS
          ELSE bpc' = "panic" /\ cols' = 0
    /\ UNCHANGED << build, row, notb3 >>

\* <[T] as BorrowMut<Blake3Cols<T>>>::borrow_mut, lines 116-123
BorrowMut ==
    /\ bpc = "slice"
    /\ IF BorrowOk(row.len, build)
          THEN bpc' = "view_mut" /\ cols' = NUM_BLAKE3_COLS
          ELSE bpc' = "panic" /\ cols' = 0
    /\ UNCHANGED << build, row, notb3 >>

\* A write to cell i of field f of the &mut Blake3Cols: the struct starts
\* at cell 0 of the slice (shorts[0]).
WriteField ==
    /\ bpc = "view_mut"
    /\ Cardinality(DOMAIN row.cells) < MaxWrites
    /\ \E f \in 1 .. Len(Blake3Cols), v \in 1 .. 2 :
          \E i \in { 0, Blake3Cols[f].size - 1 } :
             row' = WriteCell(row, OffsetOf(f) + i, v)
    /\ UNCHANGED << build, cols, bpc, notb3 >>

\* The reference goes out of scope.
EndBorrow ==
    /\ bpc \in { "view", "view_mut" }
    /\ bpc' = "slice"
    /\ cols' = 0
    /\ UNCHANGED << build, row, notb3 >>

B3Next ==
    \/ WriteFlat
    \/ Borrow
    \/ BorrowMut
    \/ WriteField
    \/ EndBorrow

SpecB3 == B3Init /\ [][B3Next]_vars

(***************************************************************************)
(*                       MERSENNE-31 BACKWARD FFT                          *)
(***************************************************************************)

\* ---- bound of the backward FFT model: log2 of the longest slice ----
MaxLogLen == 9

\* The lengths with an unrolled function backward_2 .. backward_256; a call
\* of the model names its function by this length, backward_fft by 0.
Unrolled == { 2, 4, 8, 16, 32, 64, 128, 256 }

\* The lengths of INV_TWIDDLES_4, _8, _16 and _32.
InvTwiddlesLen(n) ==
    CASE n = 4 -> 2 [] n = 8 -> 4 [] n = 16 -> 8 [] n = 32 -> 16

\* backward_pass, lines 34-35: the assertion on roots.len() (half_n - 1 is
\* an unsigned subtraction).
BackwardPassOk(n, roots_len) ==
    /\ n \div 2 >= 1
    /\ roots_len = n \div 2 - 1

\* root_table[0].len() of the table slice that starts at off; -1 when the
\* slice is empty (the index is out of bounds).
RootsAt(off) ==
    IF off < Len(twiddle_table) THEN twiddle_table[off + 1] ELSE 0 - 1

BfCall(fn, n, off) == [ kind |-> "call", fn |-> fn, n |-> n, off |-> off ]

BfPass(roots_len) == [ kind |-> "pass", roots |-> roots_len ]

\* What function fn does on a slice of n elements with the table slice that
\* starts at off, in order: calls on the halves and backward_pass calls.
BfBody(fn, n, off) ==
    CASE fn = 0 ->
           IF n = 1 THEN << >>
           ELSE IF n \in Unrolled THEN << BfCall(n, n, off) >>
           ELSE << BfCall(0, n \div 2, off + 1), BfCall(0, n \div 2, off + 1),
                   BfPass(RootsAt(off)) >>
      [] fn = 2 -> << >>
      [] fn = 4 ->
           << BfPass(InvTwiddlesLen(4)), BfCall(2, n \div 2, off),
              BfCall(2, n \div 2, off) >>
      [] fn \in { 8, 16, 32 } ->
           << BfCall(fn \div 2, n \div 2, off), BfCall(fn \div 2, n \div 2, off),
              BfPass(InvTwiddlesLen(fn)) >>
      [] fn = 64 ->
           << BfCall(32, n \div 2, off), BfCall(32, n \div 2, off),
              BfPass(RootsAt(off)) >>
      [] fn \in { 128, 256 } ->
           << BfCall(fn \div 2, n \div 2, off + 1),
              BfCall(fn \div 2, n \div 2, off + 1), BfPass(RootsAt(off)) >>

\* The checks on entering a function: the slice &root_table[1..] exists; the
\* length assertion of an unrolled function; backward_fft returns at n = 1,
\* asserts n == 1 << (twiddle_table.len() + 1) and, in the default arm of
\* its match, n > 64.
BfEntryOk(fn, n, off) ==
    /\ off <= Len(twiddle_table)
    /\ fn # 0 => n = fn
    /\ (fn = 0 /\ n # 1) =>
          /\ n = 2 ^ (Len(twiddle_table) - off + 1)
          /\ n \notin Unrolled => n > 64

\* The innermost call in progress and the step it is at.
Top == stack[Len(stack)]

TopBody == BfBody(Top.fn, Top.n, Top.off)

\* The twiddle tables a caller passes for a slice of 2^j elements: j - 1 or
\* j vectors, the one for the sub-slices of m elements having m / 2 or
\* m / 2 - 1 roots.
TwiddleTables(j) ==
    UNION { { [ i \in 1 .. len |-> (2 ^ (j - i + 1)) \div 2 - d[i] ] :
                d \in [ 1 .. len -> { 0, 1 } ] } :
            len \in { l \in { j - 1, j } : l >= 0 } }

BfInit ==
    /\ \E j \in 0 .. MaxLogLen :
          /\ a_len = 2 ^ j
          /\ twiddle_table \in TwiddleTables(j)
    /\ stack = << >>
    /\ butterflies = 0
    /\ bfpc = "call"
    /\ NotBfIdle

\* backward_fft, lines 152-161: the call itself.
BackwardFft ==
    /\ bfpc = "call"
    /\ IF BfEntryOk(0, a_len, 0)
          THEN /\ stack' = << [ fn |-> 0, n |-> a_len, off |-> 0, step |-> 0 ] >>
               /\ bfpc' = "running"
          ELSE /\ bfpc' = "panic"
               /\ UNCHANGED stack
    /\ UNCHANGED << a_len, twiddle_table, butterflies, notbf >>

\* The innermost function calls the next function on a half of its slice.
Descend ==
    /\ bfpc = "running"
    /\ Top.step < Len(TopBody)
    /\ LET op == TopBody[Top.step + 1]
       IN /\ op.kind = "call"
          /\ IF BfEntryOk(op.fn, op.n, op.off)
                THEN /\ stack' = Append(stack, [ fn |-> op.fn, n |-> op.n,
                                                 off |-> op.off, step |-> 0 ])
                     /\ UNCHANGED bfpc
                ELSE /\ bfpc' = "panic"
                     /\ UNCHANGED stack
    /\ UNCHANGED << a_len, twiddle_table, butterflies, notbf >>

\* backward_pass, lines 33-43, called by the innermost function on its whole
\* slice: izip! applies a butterfly per root.
BackwardPass ==
    /\ bfpc = "running"
    /\ Top.step < Len(TopBody)
    /\ LET op == TopBody[Top.step + 1]
       IN /\ op.kind = "pass"
          /\ IF op.roots >= 0 /\ BackwardPassOk(Top.n, op.roots)
                THEN /\ butterflies' = butterflies + Min(Top.n \div 2, op.roots)
                     /\ stack' = [ stack EXCEPT ![Len(stack)].step = @ + 1 ]
                     /\ UNCHANGED bfpc
                ELSE /\ bfpc' = "panic"
                     /\ UNCHANGED << stack, butterflies >>
    /\ UNCHANGED << a_len, twiddle_table, notbf >>

\* The innermost function returns to its caller; backward_2 applies its one
\* butterfly (lines 49-52).
BfReturn ==
    /\ bfpc = "running"
    /\ Top.step = Len(TopBody)
    /\ butterflies' = butterflies + (IF Top.fn = 2 THEN 1 ELSE 0)
    /\ IF Len(stack) = 1
          THEN /\ stack' = << >>
               /\ bfpc' = "returned"
          ELSE /\ stack' = [ SubSeq(stack, 1, Len(stack) - 1)
                               EXCEPT ![Len(stack) - 1].step = @ + 1 ]
               /\ UNCHANGED bfpc
    /\ UNCHANGED << a_len, twiddle_table, notbf >>

BfNext ==
    \/ BackwardFft
    \/ Descend
    \/ BackwardPass
    \/ BfReturn

SpecBf == BfInit /\ [][BfNext]_vars

(***************************************************************************)
(* THE AVX512 INTERNAL LAYER OF POSEIDON2                                  *)
(* (monty-31/src/x86_64_avx512/poseidon2.rs).                              *)
(*                                                                         *)
(* One lane of the packed vectors is modelled: every intrinsic acts on     *)
(* the sixteen lanes alike.  A lane holds the integer the code holds, so   *)
(* that the negative form of the constants and the ranges the helpers      *)
(* expect are part of the model; the field is the one of the circle FFT    *)
(* (P), whose elements 0 .. P - 1 are the canonical form.  The Montgomery  *)
(* scaling of the lanes is left out: the layer's operations other than     *)
(* the S-box are linear, and the S-box is computed by Montgomery products. *)
(***************************************************************************)

MaxAvxRounds == 2

\* WIDTH of the two implementations of InternalLayer (lines 327, 377).
AvxWidths == { 16, 24 }

\* The D that exp_small has a function for (lines 188-191).
AvxDegrees == { 3, 5, 7 }

\* super::add (imported at line 14; its body is outside this file): the
\* modular sum of two canonical lanes, in canonical form.
Add(lhs, rhs) == IF lhs + rhs >= P THEN lhs + rhs - P ELSE lhs + rhs

\* super::sub (imported at line 14): the modular difference of two canonical
\* lanes, in canonical form.
Sub(lhs, rhs) == IF lhs - rhs < 0 THEN lhs - rhs + P ELSE lhs - rhs

\* super::halve_avx512 (imported at line 14): half of a canonical lane, in
\* canonical form.
HalveAvx512(input) ==
    IF input % 2 = 0 THEN input \div 2 ELSE (input + P) \div 2

\* convert_to_vec_neg_form (lines 319-325): input - P, in [-P, 0).
ConvertToVecNegForm(input) == input - P

\* exp_small (lines 187-194) on a lane in [-P, P]: the D-th power, D one of
\* 3, 5, 7; any other D panics.
ExpSmall(D, val) ==
    CASE D = 3 -> MExp((val + P) % P, 3)
      [] D = 5 -> MExp((val + P) % P, 5)
      [] D = 7 -> MExp((val + P) % P, 7)

\* add_rc_and_sbox (lines 201-216): the lane-wise 32-bit sum of val and rc,
\* not reduced, and exp_small of it.
AddRcAndSbox(D, val, rc) == ExpSmall(D, val + rc)

\* A variant that yields the true products -1/2, -3, -4 of entries 6..8
\* instead of the negated ones add_sum expects.
DiagonalMulFirstEightTrueProduct(input) ==
    [ input EXCEPT
        ![2] = Add(@, @),
        ![3] = HalveAvx512(@),
        ![4] = Add(Add(@, @), @),
        ![5] = Add(Add(@, @), Add(@, @)),
        ![6] = Sub(0, HalveAvx512(@)),
        ![7] = Sub(0, Add(Add(@, @), @)),
        ![8] = Sub(0, Add(Add(@, @), Add(@, @))) ]

\* diagonal_mul_first_eight (lines 253-279).  input[j] of the code is
\* input[j + 1] here, and is entry j + 1 of the state.
DiagonalMulFirstEight(input) ==
    [ input EXCEPT
        ![2] = Add(@, @),
        ![3] = HalveAvx512(@),
        ![4] = Add(Add(@, @), @),
        ![5] = Add(Add(@, @), Add(@, @)),
        ![6] = HalveAvx512(@),
        ![7] = Add(Add(@, @), @),
        ![8] = Add(Add(@, @), Add(@, @)) ]

\* The inverse power of two of entry i > 8 of the diagonal: the powers
\* differ from entry to entry and from the 1/2 of the first entries.
InvPow2(i) == MInv(Pow2(((i - 9) % 5) + 2))

\* diagonal_mul_remainder (declared at line 284, implemented per field): the
\* entries after the first eight multiplied by the negated inverse power of
\* two, as the trait describes (lines 236-238, 304-305).
DiagonalMulRemainder(input) ==
    [ j \in 1 .. Len(input) |->
        IF j <= 8 THEN input[j] ELSE MMul(P - InvPow2(j), input[j]) ]

\* diagonal_mul (lines 244-247).
DiagonalMul(input) == DiagonalMulRemainder(DiagonalMulFirstEight(input))

\* add_sum (lines 296-314) with NUM_POS = num_pos.
AddSum(input, sum, num_pos) ==
    [ j \in 1 .. Len(input) |->
        IF j <= 5 THEN Add(sum, input[j])
        ELSE IF j <= 8 + num_pos THEN Sub(sum, input[j])
        ELSE Add(sum, input[j]) ]

\* NUM_POS (line 287) of an implementation of the trait: the slices of add_sum
\* need 8 + NUM_POS <= WIDTH - 1.
NumPoses(WIDTH) == { 0, 4, WIDTH - 9 }

\* The internal constants handed to new_from_constants, canonical.
AvxConstants == SeqsUpTo({ 0, 1, P - 1 }, MaxAvxRounds)

\* The canonical states handed to permute_state.
AvxStates(WIDTH) ==
    { [ i \in 1 .. WIDTH |-> (a * i + b) % P ] :
        a \in { 0, 1, 50 }, b \in { 0, 1, P - 1 } }

AvxInit ==
    /\ layer = << >>
    /\ avx_state = << >>
    /\ internal_state = << >>
    /\ rc_i = 0
    /\ apc = "construct"
    /\ NotAvxIdle

\* new_from_constants (lines 129-139) of a layer of some WIDTH, D and NUM_POS.
NewFromConstants ==
    /\ apc = "construct"
    /\ \E WIDTH \in AvxWidths, D \in AvxDegrees,
          internal_constants \in AvxConstants :
         \E num_pos \in NumPoses(WIDTH) :
           layer' = [ width |-> WIDTH, D |-> D, num_pos |-> num_pos,
                      internal_constants |-> internal_constants,
                      packed_internal_constants |->
                          [ c \in 1 .. Len(internal_constants) |->
                              ConvertToVecNegForm(internal_constants[c]) ] ]
    /\ apc' = "built"
    /\ UNCHANGED << avx_state, internal_state, rc_i, notavx >>

\* permute_state is called and from_packed_field_array splits the state
\* (lines 353 and 402; lines 53-63, 93-103).
FromPackedFieldArray ==
    /\ apc = "built"
    /\ \E st \in AvxStates(layer.width) :
         /\ avx_state' = st
         /\ internal_state' = [ s0 |-> st[1],
                                s_hi |-> SubSeq(st, 2, layer.width) ]
    /\ rc_i' = 0
    /\ apc' = "rounds"
    /\ UNCHANGED << layer, notavx >>

\* One run of the closure of packed_internal_constants.iter().for_each
\* (lines 355-368 and 404-417).
PermuteStateRound ==
    /\ apc = "rounds"
    /\ rc_i < Len(layer.packed_internal_constants)
    /\ LET rc == layer.packed_internal_constants[rc_i + 1]
           s0 == AddRcAndSbox(layer.D, internal_state.s0, rc)
           sum_non_0 == VSum(internal_state.s_hi, layer.width - 1)
           s_hi == DiagonalMul(internal_state.s_hi)
           sum == MAdd(sum_non_0, s0)
       IN  internal_state' =
               [ s0 |-> MSub(sum_non_0, s0),
                 s_hi |-> AddSum(s_hi, sum, layer.num_pos) ]
    /\ rc_i' = rc_i + 1
    /\ UNCHANGED << layer, avx_state, apc, notavx >>

\* The iterator is exhausted and to_packed_field_array writes the state back
\* (lines 372 and 420; lines 38-48, 80-88).
ToPackedFieldArray ==
    /\ apc = "rounds"
    /\ rc_i = Len(layer.packed_internal_constants)
    /\ avx_state' = << internal_state.s0 >> \o internal_state.s_hi
    /\ apc' = "returned"
    /\ UNCHANGED << layer, internal_state, rc_i, notavx >>

AvxNext ==
    \/ NewFromConstants
    \/ FromPackedFieldArray
    \/ PermuteStateRound
    \/ ToPackedFieldArray

SpecAvx == AvxInit /\ [][AvxNext]_vars

(***************************************************************************)
(* Claims about the FRI verifier.                                          *)
(***************************************************************************)

HasOp(ops) == \E i \in 1 .. Len(log) : log[i].op \in ops

RECURSIVE ChAfterCommits(_, _)
\* The challenger's state after observing the commitments and sampling a
\* beta after each, from state ch.
ChAfterCommits(ch, commits) ==
    IF commits = << >> THEN ch
    ELSE ChAfterCommits(ChSampleNext(ChObserve(ch, Head(commits))), Tail(commits))

\* Whether the proof's witness passes the proof-of-work check that follows the
\* commit phase.
WitnessPasses ==
    ChCheckWitness(ChAfterCommits(InitialChallenger, proof.commit_phase_commits),
                   config.proof_of_work_bits, proof.pow_witness)

QueryCountDiffers == n_query_proofs # config.num_queries

\* C1: when proof.query_proofs.len() differs from config.num_queries, verify
\* never gets past the commit phase: it calls none of check_witness,
\* sample_bits, open_input, verify_batch, and what it returns is
\* Err(InvalidProofShape), whatever the witness and the openings are.
C1_InvalidProofShape ==
    QueryCountDiffers =>
        /\ pc \in { "commits", "done" }
        /\ ~ HasOp({ "check_witness", "sample_bits", "open_input", "verify_batch" })
        /\ pc = "done" => result = "InvalidProofShape"

\* verify has returned InvalidProofShape for a proof with two commitments
\* whose witness would not have passed the proof-of-work check.
C1_Witness ==
    /\ pc = "done"
    /\ QueryCountDiffers
    /\ result = "InvalidProofShape"
    /\ Len(proof.commit_phase_commits) = MaxCommits
    /\ ~ WitnessPasses

\* C2: when the query count is right and check_witness is false, verify,
\* once past the proof-of-work check, has returned Err(InvalidPowWitness)
\* and has called none of sample_bits, open_input, verify_batch.
C2_InvalidPowWitness ==
    (~ QueryCountDiffers /\ ~ WitnessPasses /\ pc \notin { "commits", "pow" }) =>
        /\ pc = "done"
        /\ result = "InvalidPowWitness"
        /\ ~ HasOp({ "sample_bits", "open_input", "verify_batch" })

\* verify has returned InvalidPowWitness for a proof with query proofs.
C2_Witness ==
    /\ pc = "done"
    /\ result = "InvalidPowWitness"
    /\ n_query_proofs = MaxQueries
    /\ config.proof_of_work_bits > 0

\* C3 as stated: for any configuration, a second call on an accepted proof
\* whose final_poly was replaced by another value returns FinalPolyMismatch.
C3_FinalPolyFlipAnyConfig ==
    (run = 2 /\ mutation.kind = "final_poly" /\ pc = "done") =>
        result = "FinalPolyMismatch"

\* C3 amended: for any configuration with num_queries >= 1, a second call
\* (same challenger state, same open_input) on an accepted proof whose
\* final_poly was replaced by another value returns Err(FinalPolyMismatch);
\* with num_queries = 0 no comparison is made and the call returns Ok again.
C3_FinalPolyFlip ==
    (run = 2 /\ mutation.kind = "final_poly" /\ pc = "done") =>
        IF config.num_queries >= 1 THEN result = "FinalPolyMismatch"
                                   ELSE result = "Ok"

\* The second call has rejected the changed final_poly of a two-query,
\* two-commitment proof whose query proofs have all their openings.
C3_Witness ==
    /\ run = 2
    /\ mutation.kind = "final_poly"
    /\ pc = "done"
    /\ prev_result = "Ok"
    /\ result = "FinalPolyMismatch"
    /\ config.num_queries = MaxQueries
    /\ Len(proof.commit_phase_commits) = MaxCommits
    /\ \A q \in 1 .. Len(proof.query_proofs) :
          proof.query_proofs[q].n_openings = MaxCommits

\* C4 as stated: a second call on an accepted proof in which the
\* sibling_value of one opening of one query proof was replaced by another
\* value returns CommitPhaseMmcsError (the mmcs of the model accepts one leaf
\* row only for a commitment, dimensions and index).
C4_SiblingFlip ==
    (run = 2 /\ mutation.kind = "sibling" /\ pc = "done") =>
        result = "CommitPhaseMmcsError"

\* The number of fold steps verify_query makes for query proof q.
FoldSteps(q) ==
    Min(Len(proof.commit_phase_commits), proof.query_proofs[q].n_openings)

\* What holds of C4 in the code: the flip is detected exactly when the
\* changed opening is one that the fold loop reads.
C4_SiblingFlipRead ==
    (run = 2 /\ mutation.kind = "sibling" /\ pc = "done") =>
        IF mutation.k <= FoldSteps(mutation.q)
           THEN result = "CommitPhaseMmcsError"
           ELSE result = "Ok"

QueryOps == { "sample_bits", "open_input", "verify_batch", "compare" }

\* The log entry at position i is the last call verify made, and verify
\* returned r after it.
ReturnedAt(i, r) == i = Len(log) /\ pc = "done" /\ result = r

\* The calls of the log are in protocol order, and a failed check is the
\* last call, after which verify has returned that check's error.
FailureOrder ==
    /\ HasOp({ "check_witness" }) => ~ QueryCountDiffers
    /\ HasOp(QueryOps) => (~ QueryCountDiffers /\ WitnessPasses)
    /\ result = "InvalidProofShape" => (QueryCountDiffers /\ ~ HasOp({ "check_witness" }))
    /\ result = "InvalidPowWitness" =>
          (Len(log) > 0 /\ log[Len(log)].op = "check_witness" /\ log[Len(log)].v = 0)
    /\ result = "CommitPhaseMmcsError" =>
          (Len(log) > 0 /\ log[Len(log)].op = "verify_batch" /\ log[Len(log)].v = 0)
    /\ result = "FinalPolyMismatch" =>
          (Len(log) > 0 /\ log[Len(log)].op = "compare"
                        /\ log[Len(log)].v # proof.final_poly)
    /\ \A i \in 1 .. Len(log) :
          /\ (log[i].op = "check_witness" /\ log[i].v = 0) =>
                 ReturnedAt(i, "InvalidPowWitness")
          /\ (log[i].op = "verify_batch" /\ log[i].v = 0) =>
                 ReturnedAt(i, "CommitPhaseMmcsError")
          /\ (log[i].op = "compare" /\ log[i].v # proof.final_poly) =>
                 ReturnedAt(i, "FinalPolyMismatch")
          \* queries in proof order; in a query the openings, the top layer
          \* first, and then the comparison
          /\ \A j \in (i + 1) .. Len(log) :
                (log[i].op \in QueryOps /\ log[j].op \in QueryOps) =>
                    /\ log[i].q <= log[j].q
                    /\ (log[i].q = log[j].q /\ log[j].op = "verify_batch") =>
                           \/ log[i].op \in { "sample_bits", "open_input" }
                           \/ log[i].op = "verify_batch" /\ log[i].a > log[j].a
                    /\ (log[i].q = log[j].q) => log[i].op # "compare"

\* C5: verify returns the first proof-validity failure in protocol order
\* (query count, proof of work, then the queries in proof order, in a query
\* the openings from the top layer down and then the comparison with
\* final_poly), the failed check is the last call it makes, and once it has
\* returned an error nothing changes any more.
C5_FirstFailureOnly ==
    [][ /\ FailureOrder'
        /\ (pc = "done" /\ result # "Ok") => UNCHANGED vars ]_vars

\* verify has returned CommitPhaseMmcsError in the second query, below the
\* top layer, after the first query passed all its checks.
C5_Witness ==
    /\ pc = "done"
    /\ result = "CommitPhaseMmcsError"
    /\ run = 1
    /\ qi = 1
    /\ k = 1
    /\ \E i \in 1 .. Len(log) : log[i].op = "compare" /\ log[i].q = 1

ChallengerOps == { "observe", "sample", "check_witness", "sample_bits" }

IsChallengerOp(e) == e.op \in ChallengerOps

\* The calls made on the challenger, in order.
ChallengerLog == SelectSeq(log, IsChallengerOp)

\* The sequence of challenger calls of a complete verify call, read off the
\* proof and the configuration: observe and sample for every commitment, one
\* check_witness, one sample_bits per query proof.
ExpectedChallengerCalls ==
    LET commits == proof.commit_phase_commits
        commit_phase ==
            [ i \in 1 .. 2 * Len(commits) |->
                IF i % 2 = 1
                   THEN << "observe", 0, (i + 1) \div 2, CommCode(commits[(i + 1) \div 2]) >>
                   ELSE << "sample", 0, i \div 2, 0 >> ]
        queries ==
            [ q \in 1 .. n_query_proofs |->
                << "sample_bits", q,
                   Len(commits) + config.log_blowup + config.extra_query_index_bits,
                   0 >> ]
    IN commit_phase \o << << "check_witness", 0, config.proof_of_work_bits, 0 >> >>
                    \o queries

\* What of a challenger call is fixed by the proof and the configuration: the
\* operation, its query, its argument and, for observe, the commitment.
CallShape(e) == << e.op, e.q, e.a, IF e.op = "observe" THEN e.v ELSE 0 >>

\* C6: the calls verify makes on the challenger are, in order, a prefix of:
\* for each commitment in proof order observe(commitment) and then at once
\* the sample() that gives the layer's beta; one check_witness; one
\* sample_bits(log_max_height + extra_query_index_bits) per query proof, in
\* proof order, each right before that query's open_input, which is given
\* the sampled index.  A call that returns Ok has made all of them.  A second
\* call from the same challenger state on the same proof makes the same
\* calls with the same results.
C6_ChallengerSequence ==
    /\ Len(ChallengerLog) <= Len(ExpectedChallengerCalls)
    /\ \A i \in 1 .. Len(ChallengerLog) :
          CallShape(ChallengerLog[i]) = ExpectedChallengerCalls[i]
    /\ result = "Ok" => Len(ChallengerLog) = Len(ExpectedChallengerCalls)
    /\ \A i \in 1 .. Len(log) :
          /\ log[i].op = "observe" =>
                (i < Len(log) /\ log[i + 1].op = "sample" /\ log[i + 1].a = log[i].a)
          /\ log[i].op = "sample" =>
                (log[i].a <= Len(betas) /\ betas[log[i].a] = log[i].v)
          /\ log[i].op = "sample_bits" =>
                (i < Len(log) /\ log[i + 1].op = "open_input"
                              /\ log[i + 1].q = log[i].q /\ log[i + 1].a = log[i].v)
          /\ log[i].op = "open_input" => (i > 1 /\ log[i - 1].op = "sample_bits")
    /\ (run = 2 /\ mutation.kind = "none") =>
          /\ Len(log) <= Len(prev_log)
          /\ \A i \in 1 .. Len(log) : log[i] = prev_log[i]
          /\ pc = "done" => (log = prev_log /\ result = prev_result)

\* A second call on the same accepted proof, with two commitments, two query
\* proofs and a blowup, has returned.
C6_Witness ==
    /\ run = 2
    /\ mutation.kind = "none"
    /\ pc = "done"
    /\ result = "Ok"
    /\ n_query_proofs = MaxQueries
    /\ Len(proof.commit_phase_commits) = MaxCommits
    /\ config.log_blowup > 0
    /\ Len(ChallengerLog) = 2 * MaxCommits + 1 + MaxQueries

\* ---- the fold loop of a query (C17 .. C20) ----

\* The positions in the log of the verify_batch calls of query q.
Steps(q) == { i \in 1 .. Len(log) : log[i].op = "verify_batch" /\ log[i].q = q }

\* verify_query returned Ok for query q: verify compared its result.
Completed(q) == \E i \in 1 .. Len(log) : log[i].op = "compare" /\ log[i].q = q

NumCommits == Len(proof.commit_phase_commits)

\* The fold steps of query q go down one layer at a time.
Descending(q) ==
    \A i \in Steps(q), j \in Steps(q) : i < j => log[i].a > log[j].a

\* C17 as stated: a query that verify_query completed has had one fold step
\* for every log_folded_height from log_max_height - 1 down to 0, that is
\* log_max_height = commit_phase_commits.len() + log_blowup steps.
C17_FoldRangeToZero ==
    \A q \in 1 .. Len(proof.query_proofs) :
       Completed(q) =>
          /\ { log[i].a : i \in Steps(q) } = 0 .. (NumCommits + config.log_blowup - 1)
          /\ Cardinality(Steps(q)) = NumCommits + config.log_blowup

\* C17, amended: a query with at least commit_phase_commits.len() openings
\* that verify_query completed has had one fold step for every
\* log_folded_height from log_max_height - 1 down to log_blowup, that is
\* commit_phase_commits.len() steps, in descending order.
C17_FoldRange ==
    \A q \in 1 .. Len(proof.query_proofs) :
       (Completed(q) /\ proof.query_proofs[q].n_openings >= NumCommits) =>
          /\ { log[i].a : i \in Steps(q) } =
                config.log_blowup .. (NumCommits + config.log_blowup - 1)
          /\ Cardinality(Steps(q)) = NumCommits
          /\ Descending(q)

\* A completed query with two commitments and a blowup: two fold steps, at
\* the heights 2 and 1.
C17_Witness ==
    /\ Completed(1)
    /\ NumCommits = 2
    /\ config.log_blowup = 1
    /\ proof.query_proofs[1].n_openings >= 2
    /\ { log[i].a : i \in Steps(1) } = { 1, 2 }

\* C18: whenever verify returned Ok(()), every query proof carries as many
\* commit_phase_openings as there are commit_phase_commits, and for every
\* query and every commitment one verify_batch call was made and succeeded.
C18_FullOpeningChain ==
    result = "Ok" =>
       \A q \in 1 .. Len(proof.query_proofs) :
          /\ proof.query_proofs[q].n_openings = NumCommits
          /\ Cardinality(Steps(q)) = NumCommits
          /\ \A i \in Steps(q) : log[i].v = 1

\* C18 for the proofs whose query proofs have the full number of openings.
C18_FullOpeningChainWellFormed ==
    (result = "Ok" /\ \A q \in 1 .. Len(proof.query_proofs) :
                         proof.query_proofs[q].n_openings = NumCommits) =>
       \A q \in 1 .. Len(proof.query_proofs) :
          /\ Cardinality(Steps(q)) = NumCommits
          /\ \A i \in Steps(q) : log[i].v = 1

\* This step is a verify_batch call: the log grew by its entry.
BatchCalled ==
    /\ Len(log') = Len(log) + 1
    /\ log'[Len(log')].op = "verify_batch"

\* The accumulator of the fold step at layer lfh: folded_eval, with the head
\* of the reduced openings added when it is at lfh + 1.
Accumulator(lfh) ==
    IF ro_iter = << >> THEN folded_eval
    ELSE IF Head(ro_iter)[1] = lfh + 1 THEN FAdd(folded_eval, Head(ro_iter)[2])
    ELSE folded_eval

\* C19: at every fold step verify_batch gets one row, the pair with the
\* accumulator at position index & 1 and the proof's sibling_value at
\* position 1 - (index & 1), at row index >> 1, for one matrix of width 2 and
\* height 2^log_folded_height; its error is returned as CommitPhaseMmcsError.
C19_SiblingPair ==
    [][ BatchCalled =>
          LET e == log'[Len(log')]
              n == Cardinality(Steps(e.q))
              sib == proof'.query_proofs[e.q].commit_phase_openings[n + 1]
                        .sibling_value
          IN /\ DOMAIN e.rows = { 1 }
             /\ DOMAIN e.rows[1] = { 1, 2 }
             /\ e.rows[1][(index % 2) + 1] = Accumulator(e.a)
             /\ e.rows[1][2 - (index % 2)] = sib
             /\ e.index = index \div 2
             /\ e.dims = << [ width |-> 2, height |-> 2 ^ e.a ] >>
             /\ (e.v = 0) <=> (result' = "CommitPhaseMmcsError" /\ pc' = "done")
             /\ (e.v = 1) => (result' = result /\ pc' = pc) ]_vars

\* A verify_batch call failed after one of the same query succeeded on a
\* pair of two different values.
C19_Witness ==
    /\ result = "CommitPhaseMmcsError"
    /\ \E i \in 1 .. Len(log) :
          /\ log[i].op = "verify_batch"
          /\ log[i].v = 1
          /\ log[i].rows[1][1] # log[i].rows[1][2]
          /\ log[Len(log)].q = log[i].q

\* C20: the k-th fold step of a query uses the k-th sampled beta, the k-th
\* commitment and the query's k-th opening, at log_folded_height =
\* log_max_height - 1 - k; the query starts from the accumulator zero and
\* the sampled index shifted right by extra_query_index_bits; after the
\* opening check index is index >> 1 and the accumulator is
\* fold_row(index >> 1, log_folded_height, beta_k, pair).
C20_StepPairing ==
    [][ /\ BatchCalled =>
             LET e == log'[Len(log')]
                 n == Cardinality(Steps(e.q))
                 opening == proof'.query_proofs[e.q].commit_phase_openings[n + 1]
             IN /\ e.comm = proof.commit_phase_commits[n + 1]
                /\ e.opening_proof = opening.opening_proof
                /\ e.rows[1][2 - (index % 2)] = opening.sibling_value
                /\ e.a = NumCommits + config.log_blowup - 1 - n
                /\ (e.v = 1) =>
                      /\ index' = index \div 2
                      /\ \E i \in 1 .. Len(log) :
                            /\ log[i].op = "sample"
                            /\ log[i].a = n + 1
                            /\ folded_eval' = FoldRow(index \div 2, e.a, log[i].v,
                                                      e.rows[1])
        /\ (Len(log') = Len(log) + 2 /\ log'[Len(log')].op = "open_input") =>
             /\ folded_eval' = 0
             /\ index' = log'[Len(log') - 1].v \div (2 ^ config.extra_query_index_bits)
             /\ log'[Len(log') - 1].op = "sample_bits"
             /\ Steps(log'[Len(log')].q) = {} ]_vars

\* The second fold step of the second query succeeded, the index having been
\* shifted by one extra bit.
C20_Witness ==
    /\ config.extra_query_index_bits = 1
    /\ NumCommits = 2
    /\ \E i \in Steps(2) : log[i].v = 1 /\ log[i].a = config.log_blowup

\* ---- reduced openings and index bounds (C21 .. C23) ----

\* This step ends verify_query for a query: verify compared its result.
CompareLogged ==
    /\ Len(log') = Len(log) + 1
    /\ log'[Len(log')].op = "compare"

\* A reduced-openings list in strictly descending log_height order.
StrictlyDescending(ro) ==
    \A i \in 1 .. (Len(ro) - 1) : ro[i][1] > ro[i + 1][1]

\* C21: at a fold step the head of the remaining reduced openings is consumed
\* and added to folded_eval, before the pair is built, exactly when its
\* log_height is log_folded_height + 1; entries leave the list only from its
\* head, one per step; a strictly descending list whose log_heights are all
\* layers of the query's fold steps is consumed completely.
C21_ReducedOpenings ==
    [][ /\ BatchCalled =>
             LET e == log'[Len(log')]
                 takes == IF ro_iter = << >> THEN FALSE
                          ELSE Head(ro_iter)[1] = e.a + 1
             IN /\ takes => /\ ro_iter' = Tail(ro_iter)
                            /\ e.rows[1][(index % 2) + 1] =
                                  FAdd(folded_eval, Head(ro_iter)[2])
                /\ ~ takes => /\ ro_iter' = ro_iter
                              /\ e.rows[1][(index % 2) + 1] = folded_eval
        /\ (ro_iter' # ro_iter /\ ~ BatchCalled) =>
             \/ log' = << >> /\ ro_iter' = << >>
             \/ /\ log' # << >>
                /\ log'[Len(log')].op = "open_input"
                /\ ro_iter' = opened'[log'[Len(log')].q]
        /\ CompareLogged =>
             LET q == log'[Len(log')].q
             IN (/\ StrictlyDescending(opened[q])
                 /\ \A i \in 1 .. Len(opened[q]) :
                       \E j \in Steps(q) : log[j].a + 1 = opened[q][i][1])
                   => ro_iter = << >> ]_vars

\* A query with two reduced openings, in descending order, completed after
\* two fold steps and consumed both.
C21_Witness ==
    /\ log # << >>
    /\ log[Len(log)].op = "compare"
    /\ log[Len(log)].q = 1
    /\ Len(opened[1]) = 2
    /\ StrictlyDescending(opened[1])
    /\ Cardinality(Steps(1)) = 2
    /\ ro_iter = << >>

\* C22: verify_query does not return for a query whose reduced openings the
\* fold loop left partly unconsumed: no comparison with final_poly, and so no
\* Ok(()) and no FinalPolyMismatch, follows leftover entries.
C22_Drained ==
    (log # << >> /\ log[Len(log)].op = "compare") => ro_iter = << >>

\* C22 in a build with debug assertions.
C22_DrainedInDebug ==
    (config.debug_assertions /\ log # << >> /\ log[Len(log)].op = "compare")
        => ro_iter = << >>

\* C23: with one opening per commitment, at the fold step of
\* log_folded_height h the index is below 2^(h + 1) and the row index given
\* to verify_batch is below the declared height 2^h; after the last fold step
\* of a query the index is below 2^log_blowup.
C23_IndexBounds ==
    [][ /\ (BatchCalled
              /\ proof'.query_proofs[log'[Len(log')].q].n_openings = NumCommits) =>
             LET e == log'[Len(log')]
             IN /\ index < 2 ^ (e.a + 1)
                /\ e.index < 2 ^ e.a
                /\ e.index < e.dims[1].height
        /\ (pc = "fold" /\ pc' # "fold" /\ ~ BatchCalled
              /\ proof'.query_proofs[qi + 1].n_openings = NumCommits) =>
             /\ index < 2 ^ config.log_blowup
             /\ Cardinality(Steps(qi + 1)) = NumCommits ]_vars

\* The second fold step of a query with two commitments has been checked at
\* a row index other than zero.
C23_Witness ==
    /\ NumCommits = 2
    /\ proof.query_proofs # << >>
    /\ proof.query_proofs[1].n_openings = 2
    /\ \E i \in Steps(1) : log[i].a = config.log_blowup /\ log[i].index > 0

(***************************************************************************)
(* Claims about the circle FFT.  coeffs is interpolate(E), lde is          *)
(* evaluate(target, coeffs), that is extrapolate(E, target), and           *)
(* lde_coeffs is interpolate(lde).                                         *)
(***************************************************************************)

\* The round trip has returned: evaluate was called on the domain of E.
RoundTripDone == cpc = "lde" /\ target = domain

\* evaluate(domain, interpolate(E)) read in natural order is E.
RoundTripIsIdentity == CfftView(lde, domain.log_n, width) = trace

\* C7: for every circle domain with log_n >= 2 and every evaluation matrix E
\* of height 2^log_n, of any width, in natural order,
\* evaluate(domain, interpolate(E)) read back in natural order equals E
\* exactly (interpolate divides by the height).
C7_RoundTrip == RoundTripDone => RoundTripIsIdentity

\* The round trip for the widths that are powers of two (the widths of
\* test_cfft_icfft are 1, 2 and 4): the identity.
C7_RoundTripPowerOfTwoWidth ==
    (RoundTripDone /\ IsPowerOfTwo(width)) => RoundTripIsIdentity

\* Rows 0 .. 2^log_n - 1 of interpolate(extrapolate(E, target)) are the rows
\* of interpolate(E), the rows above them are zero.
LowRowsAndZeros ==
    \A i \in DOMAIN lde_coeffs :
        lde_coeffs[i] = IF i < VLen(coeffs) THEN coeffs[i] ELSE 0

\* C8: for evaluations E on a domain of size 2^log_n and any target domain
\* with target log_n >= log_n, interpolate(extrapolate(E, target)) has rows
\* 0 .. 2^log_n - 1 equal to the rows of interpolate(E) and every row from
\* 2^log_n up to the target height equal to zero.
C8_LdeConsistency == cpc = "done" => LowRowsAndZeros

\* LDE consistency for the widths that are powers of two (test_extrapolation
\* uses width 4).
C8_LdeConsistencyPowerOfTwoWidth ==
    (cpc = "done" /\ IsPowerOfTwo(width)) => LowRowsAndZeros

\* Row i of E is the columnwise dot product of coeffs with
\* circle_basis(p_i, log_n), p_i the i-th point of the domain.
RowIsBasisDotProduct(i) ==
    RowSlice(trace, width, i)
        = ColumnwiseDotProduct(coeffs, width,
                               CircleBasis(DomainPoints(domain)[i], domain.log_n))

\* C9: for coeffs = interpolate(E), E in natural order on a domain, for every
\* index i the row i of E equals the columnwise dot product of coeffs with
\* circle_basis(p_i, log_n); circle_basis returns exactly 2^log_n entries.
C9_BasisConsistency ==
    cpc = "coeffs" =>
        \A i \in 0 .. (Pow2(domain.log_n) - 1) :
            /\ Len(CircleBasis(DomainPoints(domain)[i], domain.log_n))
                    = Pow2(domain.log_n)
            /\ RowIsBasisDotProduct(i)

\* circle_basis returns exactly 2^log_n entries, for every point of the
\* domain.
C9_CircleBasisLength ==
    cpc = "coeffs" =>
        \A i \in 0 .. (Pow2(domain.log_n) - 1) :
            Len(CircleBasis(DomainPoints(domain)[i], domain.log_n))
                = Pow2(domain.log_n)

\* Basis consistency for the widths that are powers of two.
C9_BasisConsistencyPowerOfTwoWidth ==
    (cpc = "coeffs" /\ IsPowerOfTwo(width)) =>
        \A i \in 0 .. (Pow2(domain.log_n) - 1) : RowIsBasisDotProduct(i)

\* A transform has returned.
TransformReturned == cpc \in { "coeffs", "lde", "done" }

\* C10: for every number of worker threads and every interleaving of the
\* parallel jobs, interpolate and evaluate return exactly the matrix
\* obtained by applying every butterfly layer serially in order, and inside
\* a parallel region no two jobs touch the same matrix element.
C10_ParallelIsSerial ==
    /\ ~overlap
    /\ TransformReturned => values = serial_values

\* The jobs of a parallel region never touch an element another job of the
\* region wrote, whatever the order they run in.
C10_DisjointJobs == ~overlap

\* The scheduled transforms return the serially computed matrix for the
\* widths that are powers of two.
C10_ParallelIsSerialPowerOfTwoWidth ==
    (TransformReturned /\ IsPowerOfTwo(width)) => values = serial_values

\* The documented preconditions of interpolate on evaluations of height h on
\* domain d (from_cfft_order / from_natural_order and interpolate).
InterpolatePre(d, h) == h = Pow2(d.log_n) /\ d.log_n >= 2

\* The documented preconditions of evaluate on coefficients of height h and
\* domain d.
EvaluatePre(d, h) ==
    /\ d.log_n >= 2
    /\ \E j \in 0 .. d.log_n : h = Pow2(j)

\* C11: a call whose preconditions are violated ends in a panic and returns
\* nothing (height = 2^domain.log_n for from_cfft_order / from_natural_order,
\* domain.log_n >= 2 for interpolate and evaluate, a power-of-two coefficient
\* height of at most 2^domain.log_n for evaluate, target log_n >= source log_n
\* for extrapolate); when the preconditions hold no assertion of interpolate,
\* evaluate, extrapolate or compute_twiddles fails.
C11_FailFast ==
    /\ phase = 0 =>
          /\ cpc = "panic" => target.log_n < domain.log_n
          /\ cpc = "start" => target.log_n >= domain.log_n
    /\ phase = 1 =>
          /\ cpc = "panic" <=> ~InterpolatePre(domain, VLen(trace) \div width)
          /\ cpc = "panic" => coeffs = << >>
    /\ phase = 2 =>
          /\ cpc = "panic" <=> ~EvaluatePre(target, VLen(coeffs) \div width)
          /\ cpc = "panic" => lde = << >>
    /\ phase = 3 =>
          /\ cpc # "panic"
          /\ InterpolatePre(target, VLen(lde) \div width)

\* evaluate was called on coefficients whose height is not a power of two,
\* and panicked.
C11_Witness ==
    /\ phase = 2
    /\ cpc = "panic"
    /\ target.log_n >= 2
    /\ ~IsPowerOfTwo(VLen(coeffs) \div width)


\* The domain interpolate runs on: the evaluation domain in the first
\* interpolate of a run, the target in the one after evaluate.
InterpolateDomain == IF phase = 1 THEN domain ELSE target

\* Entry j of layer i (from 0) of what compute_twiddles returned; interpolate
\* holds the inverses.
Twiddle(i, j) == MInv(twiddles[i + 1][j + 1])

\* Point j of the bit-reversed half-coset of domain d.
HalfCosetPoint(d, j) ==
    Coset0(d)[ReverseBitsLen(j, d.log_n - 1)]

\* C16: for a domain of log_n >= 2 compute_twiddles returns log_n layers,
\* layer i of length 2^(log_n - 1 - i): layer 0 the y of the bit-reversed
\* half-coset, layer 1 the x of every second of these points, layer i >= 2
\* the value 2x^2 - 1 of every second entry x of layer i - 1; and neither its
\* length assertion nor twiddles.len() == log_n of interpolate fails.
C16_Twiddles ==
    /\ cpc = "par_layers" =>
          LET d == InterpolateDomain IN
          /\ d.log_n >= 2
          /\ Len(twiddles) = d.log_n
          /\ \A i \in 0 .. (d.log_n - 1) :
                /\ Len(twiddles[i + 1]) = Pow2(d.log_n - 1 - i)
                /\ \A j \in 0 .. (Pow2(d.log_n - 1 - i) - 1) :
                      Twiddle(i, j) =
                         IF i = 0 THEN HalfCosetPoint(d, j)[2]
                         ELSE IF i = 1 THEN HalfCosetPoint(d, 2 * j)[1]
                         ELSE MSub(MMul(2, MMul(Twiddle(i - 1, 2 * j),
                                                Twiddle(i - 1, 2 * j))), 1)
    /\ (cpc = "panic" /\ phase \in { 1, 3 }) =>
          \/ InterpolateDomain.log_n < 2
          \/ VLen(IF phase = 1 THEN trace ELSE lde) \div width
                # Pow2(InterpolateDomain.log_n)

\* interpolate on a domain of log_n >= 4 has its twiddles, whose layers 2
\* and 3 come from the recurrence.
C16_Witness ==
    /\ cpc = "par_layers"
    /\ phase = 1
    /\ domain.log_n >= 4
    /\ Len(twiddles) = domain.log_n
    /\ Len(twiddles[3]) >= 2

\* The coefficients zero-padded to total elements (pad_to_height).
ZeroPadded(vals, total) ==
    [ i \in 0 .. (total - 1) |-> IF i < VLen(vals) THEN vals[i] ELSE 0 ]

\* Every layer of evaluate, none skipped, on the zero-padded coefficients.
PaddedEvaluate ==
    SerialLayers("dit", ZeroPadded(coeffs, Pow2(target.log_n) * width),
                 RevSkip(ComputeTwiddles(target), 0))

\* evaluate has returned on a domain higher than the coefficients.
ShortcutTaken ==
    /\ cpc = "lde"
    /\ VLen(coeffs) \div width < Pow2(target.log_n)

\* C24: evaluate on a domain whose log_n exceeds log2 of the height of the
\* coefficients (rows repeated, first layers skipped) returns what every
\* layer returns on the coefficients zero-padded to height 2^log_n.
C24_ZeroPadding == ShortcutTaken => lde = PaddedEvaluate

\* C24 for the widths that are powers of two.
C24_ZeroPaddingPowerOfTwoWidth ==
    (ShortcutTaken /\ IsPowerOfTwo(width)) => lde = PaddedEvaluate

\* C24 for the layers applied one after the other.
C24_ZeroPaddingSerial == ShortcutTaken => serial_values = PaddedEvaluate

\* Every job of the current block of par_within_blk_layer has run.
BlockJoined == cpc = "join_blk" /\ pending = << >>

\* The elements of the current block.
BlockElements ==
    (blk * (VLen(values) \div Len(Head(twiddles))))
        .. ((blk + 1) * (VLen(values) \div Len(Head(twiddles))) - 1)

\* C25: in par_within_blk_layer the jobs of a block cover every element of
\* its lo half and of its hi half exactly once, no remainder being left
\* without a butterfly, for every width, block size and thread count.
C25_JobsCoverBlock ==
    BlockJoined => (written = BlockElements /\ ~ overlap)

\* C25 for the widths that are powers of two.
C25_JobsCoverBlockPowerOfTwoWidth ==
    (BlockJoined /\ IsPowerOfTwo(width)) => (written = BlockElements /\ ~ overlap)

(***************************************************************************)
(* Claims about the Poseidon2 permutation.                                 *)
(***************************************************************************)

\* n copies of the step e.
Rep(n, e) == [ i \in 1 .. n |-> e ]

\* The steps the permutation of rounds_f and rounds_p is stated to take.
StatedSteps(rf, rp) ==
    << "L" >> \o Rep(rf \div 2, "E") \o Rep(rp, "I") \o Rep(rf \div 2, "E")

\* C12: a permute_mut call that returned has applied one external linear
\* layer, rounds_f/2 external rounds, rounds_p internal rounds and rounds_f/2
\* external rounds again, in this order, for every rounds_f and rounds_p; as
\* many external rounds before the internal rounds as after them.
C12_RoundOrder ==
    ppc = "returned" => plog = StatedSteps(poseidon.rounds_f, poseidon.rounds_p)

\* C12 for an even rounds_f only, where the two halves are equal.
C12_RoundOrderEvenRoundsF ==
    (ppc = "returned" /\ poseidon.rounds_f % 2 = 0)
        => plog = StatedSteps(poseidon.rounds_f, poseidon.rounds_p)

\* C12: an internal round changes state[0] alone before the internal linear
\* layer, an external round adds the constants and applies the S-box to every
\* element.
C12_RoundContent ==
    [][ /\ plog' = Append(plog, "I") =>
              \E x \in 0 .. P - 1 :
                 /\ x = MExp(MAdd(state[1], poseidon.internal_constants[round + 1]),
                             poseidon.d)
                 /\ state' = InternalLinearLayer([ state EXCEPT ![1] = x ])
        /\ plog' = Append(plog, "E") =>
              state' = ExternalLinearLayer(
                          [ i \in 1 .. poseidon.width |->
                              MExp(MAdd(state[i],
                                        poseidon.external_constants[round + 1][i]),
                                   poseidon.d) ]) ]_vars

\* C13: no Poseidon2 value with a width outside SUPPORTED_WIDTHS comes out of
\* Poseidon2::new or Poseidon2::new_from_rng.
C13_WidthRejected ==
    poseidon.ctor # "none" => poseidon.width \in SupportedWidths

\* C13 for Poseidon2::new alone, which has the assertion.
C13_WidthRejectedByNew ==
    poseidon.ctor = "new" => poseidon.width \in SupportedWidths

\* C14: permute_mut never panics on an instance a constructor returned.
C14_NoRuntimeFailure == ppc # "panic"

\* C14 for the instances of new_from_rng, whose vectors have rounds_f and
\* rounds_p entries.
C14_NoRuntimeFailureFromRng ==
    poseidon.ctor = "new_from_rng" => ppc # "panic"


(***************************************************************************)
(* Claims about the Blake3 columns view.                                   *)
(***************************************************************************)

\* The first flat index of each field of Blake3Cols, and the cell count.
StatedStarts == << 0, 512, 768, 800, 832, 864, 896, 904, 912, 8976, 9104 >>

StatedCols == 9616

\* C15 (layout): the fields of Blake3Cols occupy consecutive flat indices in
\* declaration order and NUM_BLAKE3_COLS is the cell count of the layout.
C15_Layout ==
    /\ Len(Blake3Cols) = Len(StatedStarts)
    /\ \A f \in 1 .. Len(Blake3Cols) :
          /\ OffsetOf(f) = StatedStarts[f]
          /\ Blake3Cols[f].size >= 1
          /\ OffsetOf(f) + Blake3Cols[f].size =
                IF f < Len(Blake3Cols) THEN StatedStarts[f + 1] ELSE StatedCols
    /\ NUM_BLAKE3_COLS = StatedCols
    /\ bpc \in { "view", "view_mut" } => cols = StatedCols

\* C15 (write through): a write through borrow_mut to a field changes the
\* flat cell of that field and no other cell.
C15_WriteThrough ==
    [][ (bpc = "view_mut" /\ row' # row) =>
           \E f \in 1 .. Len(StatedStarts), v \in 1 .. 2 :
              \E i \in StatedStarts[f] ..
                       (IF f < Len(StatedStarts) THEN StatedStarts[f + 1]
                        ELSE StatedCols) - 1 :
                 /\ Cell(row', i) = v
                 /\ row'.len = row.len
                 /\ \A j \in (DOMAIN row.cells \cup DOMAIN row'.cells) \ { i } :
                       Cell(row', j) = Cell(row, j) ]_vars

\* C15 (length) in a build with debug assertions.
C15_LengthCheckedInDebug ==
    (build /\ bpc \in { "view", "view_mut" }) => row.len = StatedCols

\* C15: a flat slice of exactly NUM_BLAKE3_COLS cells borrows as one
\* Blake3Cols with the fields at consecutive flat indices in declaration
\* order; a slice of any other length yields no view.
C15_Blake3ColsView ==
    /\ C15_Layout
    /\ bpc \in { "view", "view_mut" } => row.len = StatedCols
    /\ (bpc = "panic") => row.len # StatedCols


(***************************************************************************)
(* Claims about the Mersenne-31 backward FFT.                              *)
(***************************************************************************)

\* The twiddle table has log2(n) - 1 vectors, as backward_fft asserts.
TableWellFormed == a_len = 2 ^ (Len(twiddle_table) + 1)

\* C27: backward_fft on a slice of a power-of-two length n >= 2 with a
\* twiddle table of log2(n) - 1 vectors fails no assertion, neither a length
\* assertion of a function nor the one of backward_pass on its roots, and a
\* slice of length 1 is returned unchanged.
C27_NoAssertionFailure ==
    /\ (a_len >= 2 /\ TableWellFormed) => bfpc # "panic"
    /\ a_len = 1 => (bfpc # "panic" /\ butterflies = 0)

\* C27 for the slices of one or two elements, which reach no backward_pass.
C27_NoAssertionFailureUpToTwo ==
    /\ (a_len = 2 /\ TableWellFormed) =>
          (bfpc # "panic" /\ (bfpc = "returned" => butterflies = 1))
    /\ a_len = 1 => (bfpc # "panic" /\ butterflies = 0)

\* C27 read the other way: every well-formed call on four or more elements
\* ends in a panic, none returns.
C27_FourOrMoreNeverReturn ==
    (a_len >= 4 /\ TableWellFormed) => bfpc # "returned"

(***************************************************************************)
(* Claims about the AVX512 internal layer of Poseidon2.                    *)
(***************************************************************************)

\* Entry i of the diagonal v of the internal matrix 1 + Diag(v): the nine
\* entries the trait states (lines 236-238), then num_pos positive and the
\* remaining negative inverse powers of two.
AvxDiag(i, num_pos) ==
    CASE i = 0 -> P - 2
      [] i = 1 -> 1
      [] i = 2 -> 2
      [] i = 3 -> MInv(2)
      [] i = 4 -> 3
      [] i = 5 -> 4
      [] i = 6 -> P - MInv(2)
      [] i = 7 -> P - 3
      [] i = 8 -> P - 4
      [] i > 8 /\ i <= 8 + num_pos -> InvPow2(i)
      [] i > 8 + num_pos -> P - InvPow2(i)

\* One internal round of the reference on the state s_0 .. s_{WIDTH-1}:
\* s_0 <- (s_0 + rc)^D, sum = the sum of the state after it, and
\* s_i <- sum + v_i * s_i.
ReferenceRound(st, rc, D, num_pos) ==
    LET after == [ st EXCEPT ![1] = MExp(MAdd(@, rc), D) ]
        sum == VSum(after, Len(st))
    IN  [ i \in 1 .. Len(st) |->
            MAdd(sum, MMul(AvxDiag(i - 1, num_pos), after[i])) ]

\* The state the rounds work on, as the array it is transmuted from and to.
InternalStateArray(is) == << is.s0 >> \o is.s_hi

\* C26: for canonical inputs every internal round of permute_state, of WIDTH
\* 16 and of WIDTH 24, takes the state to the reference's s_0 <- (s_0 + rc)^D
\* followed by s_i <- sum + v_i * s_i with v_0..v_8 = -2, 1, 2, 1/2, 3, 4,
\* -1/2, -3, -4, in canonical form; the rounds take the internal constants
\* one by one in order, and the state is written back only when every
\* constant has had its round.
C26_InternalLayer ==
    [][ /\ (apc = "rounds" /\ rc_i' = rc_i + 1) =>
            /\ InternalStateArray(internal_state') =
                   ReferenceRound(InternalStateArray(internal_state),
                                  layer.internal_constants[rc_i + 1],
                                  layer.D, layer.num_pos)
            /\ \A i \in 1 .. layer.width :
                   InternalStateArray(internal_state')[i] \in 0 .. (P - 1)
        /\ apc' = "returned" =>
            /\ rc_i = Len(layer.internal_constants)
            /\ avx_state' = InternalStateArray(internal_state)
      ]_vars

\* A permutation of WIDTH 24 has returned after a round for each of its
\* constants, on a state whose entries 6..8 are not zero.
C26_Witness ==
    /\ apc = "returned"
    /\ layer.width = 24
    /\ layer.num_pos = 4
    /\ rc_i = MaxAvxRounds
    /\ Len(layer.internal_constants) = MaxAvxRounds
    /\ \A i \in 7 .. 9 : avx_state[i] # 0

\* The same for WIDTH 16.
C26_Witness16 ==
    /\ apc = "returned"
    /\ layer.width = 16
    /\ rc_i = MaxAvxRounds
    /\ \A i \in 7 .. 9 : avx_state[i] # 0

====
